---- MODULE Spec2Model ----
(***************************************************************************)
(* isame-lb: the per-client sliding-window rate limiter, the per-backend   *)
(* circuit breaker and the three balancing policies, as state machines.    *)
(*                                                                         *)
(* Time is a discrete clock `now` (the value time.Now() returns); it is    *)
(* advanced by Tick between any two steps of any thread.                   *)
(***************************************************************************)
EXTENDS Integers, Sequences, FiniteSets, TLC

VARIABLES
    now,          \* the wall clock read by time.Now()
    \* ---- ratelimit.RateLimiter
    rlEnabled,    \* rl.config != nil && rl.config.Enabled
    rlMu,         \* rl.mu: "free", or "cleanup" while Cleanup holds it
    rlClients,    \* rl.clients: client id -> limiter object id, 0 when absent
    rlHeap,       \* limiter object id -> clientLimiter.requests (timestamps)
    rlpc,         \* per thread: position inside Allow
    rlArg,        \* per thread: the clientIP argument of the running Allow
    rlRef,        \* per thread: the *clientLimiter the call obtained, 0 if none
    rlRet,        \* per thread: what its last completed Allow returned
    rlCalls,      \* number of Allow calls started
    clPc,         \* Cleanup: "idle", "iter" (ranging over the map), "del"
    clTodo,       \* Cleanup: clients of the map not yet visited by the range
    clCur,        \* Cleanup: client under inspection
    clStart,      \* Cleanup: windowStart computed before the loop
    clHasValid,   \* Cleanup: hasValidRequests of the client under inspection
    \* ---- history of the rate limiter (not program state)
    rlAdmitted,   \* client id -> admission times of the calls that returned true
    rlShadow,     \* client id -> the request list of a run in which Cleanup never ran
    rlShadowRet,  \* per thread: what the last Allow returns in that run
    \* ---- circuitbreaker.CircuitBreaker
    cbEnabled,    \* cb.config.Enabled
    cbBackends,   \* cb.backends: url -> backendState (tracked = the key exists)
    cbpc,         \* per thread: "idle", or "found" between CanAttempt's two sections
    cbArg,        \* per thread: the backendURL argument of the running CanAttempt
    \* ---- history of the circuit breaker (not program state)
    cbEvent,      \* the last operation that took effect: arguments, result, state before
    cbStreak,     \* url -> RecordFailure calls since the last RecordSuccess, Reset or
                  \* recovery (a CanAttempt that found the url Open and returned true)
    \* ---- balancer: one upstream, its policy object and the callers of SelectBackend
    cbRecovered,  \* url -> whether the url is Closed since a CanAttempt took it out of Open,
                  \* with no RecordSuccess or Reset since
    cbFailedAt,   \* url -> the time of the latest RecordFailure the enabled breaker recorded
                  \* for the url
    backends,     \* the upstream's []config.Backend, passed to every SelectBackend
    algorithm,    \* which policy NewLoadBalancer built
    health,       \* the healthStatus map given to the latest call (url -> bool, partial)
    rrCounter,    \* RoundRobin.counter
    wrrWeights,   \* WeightedRoundRobin.weights (a missing key reads as 0)
    lcConnections, \* LeastConnections.connections (a missing key reads as 0)
    balpc,        \* per thread: "idle", or "filtered" inside RoundRobin.SelectBackend
    balLocal,     \* per thread: healthyBackends and healthStatus of the running call
    balCalls,     \* number of SelectBackend calls started
    \* ---- history of the balancer (not program state)
    balEvent,     \* the last SelectBackend that returned, while the connection counts
                  \* it read stand: arguments and result
    selCount,     \* url -> number of calls that returned that backend
    selDone,      \* number of SelectBackend calls that returned
    lcIncrements, \* url -> number of IncrementConnections calls counted
    lcDecrements, \* url -> number of DecrementConnections calls counted that found a
                  \* positive count
    lcEvent,      \* the last counted call: operation, url and the count it found
    wrrRun,       \* the backend the latest WeightedRoundRobin.SelectBackend returned and
                  \* how many calls in a row have returned it
    \* ---- health.Checker
    hcEnabled,    \* hc.config.Enabled
    hcStarted,    \* Start has run: the probe goroutines exist
    hcStatuses,   \* hc.statuses: url -> Status (the domain is the set of keys)
    hcCancelled,  \* hc.cancel() has been called: hc.ctx is done
    hcProber,     \* url -> "none", "running" or "exited": the checkBackend goroutine
    hcStop,       \* the Stop call: "idle", "waiting" (in hc.wg.Wait) or "returned"
    stReport,     \* the last answer of the server's /status handler
    \* ---- the locks of the components and the goroutines that take them
    lkScript,     \* per goroutine: the lock operations its current call has still to make
    lkHeld,       \* per goroutine: the locks it holds, as <<lock, mode>> in the order taken
    lkPending,    \* per goroutine: it is inside Lock() waiting for the lock
    \* ---- history of the health checker (not program state)
    hcProbes,     \* number of updateBackendStatus calls made
    hcEvent,      \* the last updateBackendStatus call: arguments and Status before
    \* ---- retry.Retrier and its callers (one Do call per caller at a time)
    rtEnabled,    \* r.config.Enabled
    rtMaxAttempts, \* r.config.MaxAttempts
    rtInitialBackoff, \* r.config.InitialBackoff
    rtMaxBackoff, \* r.config.MaxBackoff
    dopc,         \* per caller: "idle", "fn" (the closure runs), "sleep", "returned"
    doAttempt,    \* per caller: the loop variable attempt
    doLastErr,    \* per caller: lastErr ("nil" or an error)
    doRet,        \* per caller: what Do returned
    doCalls,      \* number of Do calls started
    \* ---- history of the retrier (not program state)
    doInvocations, \* per caller: closure invocations of the current Do call
    doLastFn,     \* per caller: what the latest invocation returned ("" before any)
    doSlept,      \* per caller: the latest duration given to time.Sleep (-1 before any)
    \* ---- proxy.Handler.ServeHTTP, one goroutine per request; the request's client is
    \* rlArg, what Allow answered is rlRet, the retrier loop is dopc/doAttempt/doLastErr
    pxpc,         \* per request: position inside ServeHTTP and its closure
    pxSnapshot,   \* per request: healthStatus, read once before the retrier runs
    pxSelected,   \* per request: selectedBackend.URL of the running attempt ("" if none)
    pxWrapped,    \* per request: wrappedWriter.statusCode, 0 while wrappedWriter is nil
    pxGone,       \* per request: the client has disconnected (r.Context() is cancelled)
    pxWrites,     \* per request: the WriteHeader calls made on w, as <<attempt, code>>
                  \* (attempt 0 is writeError)
    \* ---- history of the dispatcher (not program state)
    pxLog,        \* per request: one record per finished attempt
    \* ---- the dispatcher's configuration and the metrics collector
    pxUpstreams,  \* len(h.config.Upstreams)
    mxEnabled,    \* c.config.Enabled of the metrics collector
    pxMetrics     \* per request: the RecordRequest events that were counted

rlVars == <<rlEnabled, rlMu, rlClients, rlHeap, rlpc, rlArg, rlRef, rlRet, rlCalls,
            clPc, clTodo, clCur, clStart, clHasValid, rlAdmitted, rlShadow, rlShadowRet>>

cbHistory == <<cbRecovered, cbFailedAt>>
cbVars == <<cbEnabled, cbBackends, cbpc, cbArg, cbEvent, cbStreak, cbHistory>>

lcHistory == <<lcIncrements, lcDecrements, lcEvent>>

balVars == <<backends, algorithm, health, rrCounter, wrrWeights, lcConnections,
             balpc, balLocal, balCalls, balEvent, selCount, selDone, lcHistory,
             wrrRun>>

lkVars == <<lkScript, lkHeld, lkPending>>

hcVars == <<hcEnabled, hcStarted, hcStatuses, hcCancelled, hcProber, hcStop, stReport,
            hcProbes, hcEvent, lkVars>>

rtVars == <<rtEnabled, rtMaxAttempts, rtInitialBackoff, rtMaxBackoff,
            dopc, doAttempt, doLastErr, doRet, doCalls, doInvocations, doLastFn, doSlept>>

pxVars == <<pxpc, pxSnapshot, pxSelected, pxWrapped, pxGone, pxWrites, pxLog,
            pxUpstreams, mxEnabled, pxMetrics>>

-----------------------------------------------------------------------------
(* Bounds of the model and configuration values.                           *)

\* the clock stops at MaxTime
MaxTime == 3
\* config.RateLimitConfig.WindowSize, in clock ticks
WindowSize == 2
\* config.RateLimitConfig.RequestsPerIP
RequestsPerIP == 2
\* Allow calls started in one behaviour without Cleanup
MaxAllowCalls == 5
\* Allow calls started in one behaviour with Cleanup
MaxSweepCalls == 3

\* config.CircuitBreakerConfig.FailureThreshold
FailureThreshold == 2
\* config.CircuitBreakerConfig.Timeout, in clock ticks
BreakerTimeout == 2
\* RecordFailure calls for one url since its last RecordSuccess, Reset or recovery
MaxFailures == 3

\* SelectBackend calls in one behaviour, health snapshots changing
MaxSelects == 3
\* SelectBackend calls in one behaviour, health snapshot fixed
MaxSelectsFixed == 15
\* active connections counted for one backend
MaxConnections == 2
\* config.HealthConfig.UnhealthyThreshold
UnhealthyThreshold == 2
\* config.HealthConfig.HealthyThreshold
HealthyThreshold == 2
\* updateBackendStatus calls in one behaviour
MaxProbes == 5
\* the largest config.RetryConfig.MaxAttempts
MaxAttempts == 3
\* Do calls started in one behaviour
MaxDoCalls == 2
\* client requests served in one behaviour
MaxRequests == 3
\* ServeHTTP calls served while the probers run
MaxStaleRequests == 1
\* counted IncrementConnections / DecrementConnections calls that change one backend's
\* count in one behaviour
MaxConnectionCalls == 4

Clients == {"c1", "c2"}
RLThreads == {1, 2}
URLs == {"A", "B", "C", "D", "E"}
BreakerURLs == {"A", "B"}
CBThreads == {1, 2}
BalThreads == {1, 2}
\* the goroutines serving client requests
Requests == {1, 2}
\* at most one limiter object per map entry and one per reference held by a thread
LimiterIds == 1..(Cardinality(Clients) + Cardinality(RLThreads))

-----------------------------------------------------------------------------
(* Rate limiter.                                                           *)

AfterOrAt(ts, windowStart) == ts >= windowStart

\* req.timestamp.After(windowStart)
After(ts, windowStart) == ts > windowStart

\* the requests of a list that are still inside the window
ValidRequests(reqs, windowStart) ==
    SelectSeq(reqs, LAMBDA ts : After(ts, windowStart))

RecordedAlways(valid, admit, t) == Append(valid, t)

\* client.requests after the limit test: the timestamp is appended only on admission
Recorded(valid, admit, t) == IF admit THEN Append(valid, t) ELSE valid

NeverUnlimited(enabled) == FALSE

\* rl.config == nil || !rl.config.Enabled (rlEnabled is false for a nil configuration too)
Unlimited(enabled) == ~enabled

AtLimitOffByOne(n) == n > RequestsPerIP
\* len(client.requests) >= rl.config.RequestsPerIP
AtLimit(n) == n >= RequestsPerIP

\* a limiter object no map entry and no thread refers to is garbage: its
\* list is cleared, and its id is free for the next allocation
Collect(heap, clients, refs) ==
    [id \in LimiterIds |->
        IF (\E c \in Clients : clients[c] = id) \/ (\E t \in RLThreads : refs[t] = id)
        THEN heap[id] ELSE <<>>]

SharedId(clients, refs) == 1

FreeId(clients, refs) ==
    CHOOSE id \in LimiterIds :
        /\ \A c \in Clients : clients[c] # id
        /\ \A t \in RLThreads : refs[t] # id
        /\ \A other \in LimiterIds :
              ((\A c \in Clients : clients[c] # other)
                  /\ (\A t \in RLThreads : refs[t] # other)) => id <= other

RLInitWith(enabled) ==
    /\ rlEnabled \in enabled
    /\ rlMu = "free"
    /\ rlClients = [c \in Clients |-> 0]
    /\ rlHeap = [id \in LimiterIds |-> <<>>]
    /\ rlpc = [t \in RLThreads |-> "idle"]
    /\ rlArg = [t \in RLThreads |-> "c1"]
    /\ rlRef = [t \in RLThreads |-> 0]
    /\ rlRet = [t \in RLThreads |-> TRUE]
    /\ rlCalls = 0
    /\ clPc = "idle"
    /\ clTodo = {}
    /\ clCur = "c1"
    /\ clStart = 0
    /\ clHasValid = FALSE
    /\ rlAdmitted = [c \in Clients |-> <<>>]
    /\ rlShadow = [c \in Clients |-> <<>>]
    /\ rlShadowRet = [t \in RLThreads |-> TRUE]

\* Allow, disabled or nil configuration: return true at once
AllowDisabled(t, c, cap) ==
    /\ Unlimited(rlEnabled)
    /\ rlpc[t] = "idle"
    /\ rlCalls < cap
    /\ rlCalls' = rlCalls + 1
    /\ rlArg' = [rlArg EXCEPT ![t] = c]
    /\ rlRet' = [rlRet EXCEPT ![t] = TRUE]
    /\ rlShadowRet' = [rlShadowRet EXCEPT ![t] = TRUE]
    /\ rlAdmitted' = [rlAdmitted EXCEPT ![c] = Append(@, now)]
    /\ UNCHANGED <<now, rlEnabled, rlMu, rlClients, rlHeap, rlpc, rlRef,
                   clPc, clTodo, clCur, clStart, clHasValid, rlShadow>>
    /\ UNCHANGED <<cbVars, balVars, hcVars, rtVars, pxVars>>

\* Allow, first critical section (rl.mu): look the client up, insert it if absent
AllowLookup(t, c, cap) ==
    /\ ~Unlimited(rlEnabled)
    /\ rlpc[t] = "idle"
    /\ rlMu = "free"
    /\ rlCalls < cap
    /\ rlCalls' = rlCalls + 1
    /\ rlArg' = [rlArg EXCEPT ![t] = c]
    /\ LET id == IF rlClients[c] # 0 THEN rlClients[c] ELSE FreeId(rlClients, rlRef)
       IN /\ rlClients' = [rlClients EXCEPT ![c] = id]
          /\ rlRef' = [rlRef EXCEPT ![t] = id]
    /\ rlpc' = [rlpc EXCEPT ![t] = "client"]
    /\ UNCHANGED <<now, rlEnabled, rlMu, rlHeap, rlRet, clPc, clTodo, clCur, clStart,
                   clHasValid, rlAdmitted, rlShadow, rlShadowRet>>
    /\ UNCHANGED <<cbVars, balVars, hcVars, rtVars, pxVars>>

\* Allow, second critical section (client.mu): prune, compare, append
AllowDecide(t) ==
    /\ rlpc[t] = "client"
    /\ LET c == rlArg[t]
           id == rlRef[t]
           windowStart == now - WindowSize
           valid == ValidRequests(rlHeap[id], windowStart)
           admit == ~AtLimit(Len(valid))
           shadowValid == ValidRequests(rlShadow[c], windowStart)
           shadowAdmit == Len(shadowValid) < RequestsPerIP
           refs == [rlRef EXCEPT ![t] = 0]
       IN /\ rlHeap' = Collect([rlHeap EXCEPT ![id] = Recorded(valid, admit, now)],
                               rlClients, refs)
          /\ rlRef' = refs
          /\ rlRet' = [rlRet EXCEPT ![t] = admit]
          /\ rlAdmitted' = [rlAdmitted EXCEPT ![c] =
                               IF admit THEN Append(@, now) ELSE @]
          /\ rlShadow' = [rlShadow EXCEPT ![c] =
                             IF shadowAdmit THEN Append(shadowValid, now) ELSE shadowValid]
          /\ rlShadowRet' = [rlShadowRet EXCEPT ![t] = shadowAdmit]
    /\ rlpc' = [rlpc EXCEPT ![t] = "idle"]
    /\ UNCHANGED <<now, rlEnabled, rlMu, rlClients, rlArg, rlCalls,
                   clPc, clTodo, clCur, clStart, clHasValid>>
    /\ UNCHANGED <<cbVars, balVars, hcVars, rtVars, pxVars>>

\* Cleanup: take rl.mu, compute windowStart, start ranging over the map
CleanupBegin ==
    /\ rlEnabled
    /\ clPc = "idle"
    /\ rlMu = "free"
    /\ rlMu' = "cleanup"
    /\ clStart' = now - WindowSize
    /\ clTodo' = {c \in Clients : rlClients[c] # 0}
    /\ clPc' = "iter"
    /\ UNCHANGED <<now, rlEnabled, rlClients, rlHeap, rlpc, rlArg, rlRef, rlRet, rlCalls,
                   clCur, clHasValid, rlAdmitted, rlShadow, rlShadowRet>>
    /\ UNCHANGED <<cbVars, balVars, hcVars, rtVars, pxVars>>

\* Cleanup, loop body under client.mu: does the client hold a request of the window?
CleanupCheck(c) ==
    /\ clPc = "iter"
    /\ c \in clTodo
    /\ clTodo' = clTodo \ {c}
    /\ clCur' = c
    /\ clHasValid' = (\E i \in DOMAIN rlHeap[rlClients[c]] :
                          After(rlHeap[rlClients[c]][i], clStart))
    /\ clPc' = "del"
    /\ UNCHANGED <<now, rlEnabled, rlMu, rlClients, rlHeap, rlpc, rlArg, rlRef, rlRet,
                   rlCalls, clStart, rlAdmitted, rlShadow, rlShadowRet>>
    /\ UNCHANGED <<cbVars, balVars, hcVars, rtVars, pxVars>>

\* Cleanup, loop body after client.mu is released: delete the entry
CleanupDelete ==
    /\ clPc = "del"
    /\ rlClients' = IF clHasValid THEN rlClients ELSE [rlClients EXCEPT ![clCur] = 0]
    /\ rlHeap' = Collect(rlHeap, rlClients', rlRef)
    /\ clPc' = "iter"
    /\ clHasValid' = FALSE
    /\ UNCHANGED <<now, rlEnabled, rlMu, rlpc, rlArg, rlRef, rlRet, rlCalls,
                   clTodo, clCur, clStart, rlAdmitted, rlShadow, rlShadowRet>>
    /\ UNCHANGED <<cbVars, balVars, hcVars, rtVars, pxVars>>

\* Cleanup: the range is over, rl.mu is released
CleanupEnd ==
    /\ clPc = "iter"
    /\ clTodo = {}
    /\ rlMu' = "free"
    /\ clPc' = "idle"
    /\ UNCHANGED <<now, rlEnabled, rlClients, rlHeap, rlpc, rlArg, rlRef, rlRet, rlCalls,
                   clTodo, clCur, clStart, clHasValid, rlAdmitted, rlShadow, rlShadowRet>>
    /\ UNCHANGED <<cbVars, balVars, hcVars, rtVars, pxVars>>

-----------------------------------------------------------------------------
(* Circuit breaker.                                                        *)

\* a url with no key in cb.backends
Untracked == [tracked |-> FALSE, state |-> "closed", consecutiveFailures |-> 0,
              lastFailureTime |-> 0]

NoEvent == [op |-> "none", url |-> "A", ret |-> TRUE, at |-> 0, streak |-> 0,
            before |-> Untracked]

NeverOff(enabled) == FALSE

\* !cb.config.Enabled
BreakerOff(enabled) == ~enabled

StoredForAll(bs, u, s) == [v \in DOMAIN bs |-> s]

\* cb.backends with the entry of url u left as s; the entries of the other urls stay
Stored(bs, u, s) == [bs EXCEPT ![u] = s]

TimeoutElapsedStrict(t, lastFailureTime) == t - lastFailureTime > BreakerTimeout
\* time.Since(state.lastFailureTime) >= cb.config.Timeout
TimeoutElapsed(t, lastFailureTime) == t - lastFailureTime >= BreakerTimeout

ThresholdExceeded(n) == n > FailureThreshold
\* state.consecutiveFailures >= cb.config.FailureThreshold
ThresholdReached(n) == n >= FailureThreshold

SuccessStateOnly(s) == [s EXCEPT !.state = "closed"]
\* RecordSuccess on a tracked entry: counter 0, state Closed
SuccessState(s) == [s EXCEPT !.consecutiveFailures = 0, !.state = "closed"]

RecoveredKeepingCount(s) == [s EXCEPT !.state = "closed"]

\* CanAttempt's recovery of an Open entry: state Closed, counter 0
Recovered(s) == [s EXCEPT !.state = "closed", !.consecutiveFailures = 0]

FailureTimeWhenClosed(s, t) == IF s.state = "open" THEN s.lastFailureTime ELSE t

\* state.lastFailureTime = time.Now(), whatever the state
FailureTime(s, t) == t

ResetCounterOnly(s) == [s EXCEPT !.consecutiveFailures = 0]

\* Reset on a tracked entry: state Closed, counter 0
ResetState(s) == [s EXCEPT !.state = "closed", !.consecutiveFailures = 0]

\* RecordFailure on an entry (a fresh one when untracked): count, stamp, maybe open
FailureState(s, t) ==
    LET n == s.consecutiveFailures + 1
    IN [tracked |-> TRUE,
        state |-> IF ThresholdReached(n) THEN "open" ELSE s.state,
        consecutiveFailures |-> n,
        lastFailureTime |-> FailureTime(s, t)]

AttemptStateNeverRefuses(s, t) == <<TRUE, s>>

\* the locked section of CanAttempt on a tracked entry: <<result, new entry>>
AttemptState(s, t) ==
    IF s.state = "open"
    THEN IF TimeoutElapsed(t, s.lastFailureTime)
         THEN <<TRUE, Recovered(s)>>
         ELSE <<FALSE, s>>
    ELSE <<TRUE, s>>

CBInitWith(enabled) ==
    /\ cbEnabled \in enabled
    /\ cbBackends = [u \in BreakerURLs |-> Untracked]
    /\ cbpc = [t \in CBThreads |-> "idle"]
    /\ cbArg = [t \in CBThreads |-> "A"]
    /\ cbEvent = NoEvent
    /\ cbStreak = [u \in BreakerURLs |-> 0]
    /\ cbRecovered = [u \in BreakerURLs |-> FALSE]
    /\ cbFailedAt = [u \in BreakerURLs |-> 0]

\* the record of an operation on u taking effect now; the state it leaves is
\* cbBackends[u] until the next operation takes effect
Event(op, u, ret) ==
    [op |-> op, url |-> u, ret |-> ret, at |-> now, streak |-> cbStreak[u],
     before |-> cbBackends[u]]

\* CanAttempt, breaker disabled: true at once
CanAttemptDisabled(t, u) ==
    /\ BreakerOff(cbEnabled)
    /\ cbpc[t] = "idle"
    /\ cbEvent' = Event("CanAttempt", u, TRUE)
    /\ UNCHANGED <<now, cbEnabled, cbBackends, cbpc, cbArg, cbStreak, cbHistory>>
    /\ UNCHANGED <<rlVars, balVars, hcVars, rtVars, pxVars>>

\* CanAttempt, read-locked section: look the url up; an unknown url returns true
CanAttemptLookup(t, u) ==
    /\ ~BreakerOff(cbEnabled)
    /\ cbpc[t] = "idle"
    /\ IF cbBackends[u].tracked
       THEN /\ cbpc' = [cbpc EXCEPT ![t] = "found"]
            /\ cbArg' = [cbArg EXCEPT ![t] = u]
            /\ UNCHANGED cbEvent
       ELSE /\ cbEvent' = Event("CanAttempt", u, TRUE)
            /\ UNCHANGED <<cbpc, cbArg>>
    /\ UNCHANGED <<now, cbEnabled, cbBackends, cbStreak, cbHistory>>
    /\ UNCHANGED <<rlVars, balVars, hcVars, rtVars, pxVars>>

\* CanAttempt, write-locked section: an Open entry recovers once the timeout elapsed
CanAttemptDecide(t) ==
    /\ cbpc[t] = "found"
    /\ LET u == cbArg[t]
           r == AttemptState(cbBackends[u], now)
       IN /\ cbBackends' = Stored(cbBackends, u, r[2])
          /\ cbEvent' = Event("CanAttempt", u, r[1])
          /\ cbStreak' = [cbStreak EXCEPT ![u] =
                             IF cbBackends[u].state = "open" /\ r[1] THEN 0 ELSE @]
          /\ cbRecovered' = [cbRecovered EXCEPT ![u] =
                                @ \/ (cbBackends[u].state = "open" /\ r[1])]
    /\ cbpc' = [cbpc EXCEPT ![t] = "idle"]
    /\ UNCHANGED <<now, cbEnabled, cbArg, cbFailedAt>>
    /\ UNCHANGED <<rlVars, balVars, hcVars, rtVars, pxVars>>

\* RecordSuccess: a no-op when disabled or untracked
RecordSuccess(u) ==
    /\ LET s == cbBackends[u]
           after == IF ~BreakerOff(cbEnabled) /\ s.tracked THEN SuccessState(s) ELSE s
       IN /\ cbBackends' = Stored(cbBackends, u, after)
          /\ cbEvent' = Event("RecordSuccess", u, TRUE)
          /\ cbStreak' = [cbStreak EXCEPT ![u] = 0]
          /\ cbRecovered' = [cbRecovered EXCEPT ![u] = FALSE]
    /\ UNCHANGED <<now, cbEnabled, cbpc, cbArg, cbFailedAt>>
    /\ UNCHANGED <<rlVars, balVars, hcVars, rtVars, pxVars>>

\* RecordFailure: a no-op when disabled; creates the entry when untracked
RecordFailure(u) ==
    /\ cbStreak[u] < MaxFailures
    /\ LET s == cbBackends[u]
           after == IF BreakerOff(cbEnabled) THEN s ELSE FailureState(s, now)
       IN /\ cbBackends' = Stored(cbBackends, u, after)
          /\ cbEvent' = Event("RecordFailure", u, TRUE)
          /\ cbRecovered' = [cbRecovered EXCEPT ![u] = @ /\ after.state = "closed"]
    /\ cbStreak' = [cbStreak EXCEPT ![u] = @ + 1]
    /\ cbFailedAt' = [cbFailedAt EXCEPT ![u] = IF BreakerOff(cbEnabled) THEN @ ELSE now]
    /\ UNCHANGED <<now, cbEnabled, cbpc, cbArg>>
    /\ UNCHANGED <<rlVars, balVars, hcVars, rtVars, pxVars>>

\* Reset: Closed with counter 0, enabled or not; a no-op when untracked
Reset(u) ==
    /\ LET s == cbBackends[u]
           after == IF s.tracked THEN ResetState(s) ELSE s
       IN /\ cbBackends' = Stored(cbBackends, u, after)
          /\ cbEvent' = Event("Reset", u, TRUE)
          /\ cbStreak' = [cbStreak EXCEPT ![u] = 0]
          /\ cbRecovered' = [cbRecovered EXCEPT ![u] = FALSE]
    /\ UNCHANGED <<now, cbEnabled, cbpc, cbArg, cbFailedAt>>
    /\ UNCHANGED <<rlVars, balVars, hcVars, rtVars, pxVars>>

-----------------------------------------------------------------------------
(* The clock.                                                              *)

Tick ==
    /\ now < MaxTime
    /\ now' = now + 1
    /\ UNCHANGED <<rlVars, cbVars, balVars, hcVars, rtVars, pxVars>>

-----------------------------------------------------------------------------
(* Balancing policies.                                                     *)

Backend(u, w) == [URL |-> u, Weight |-> w]
\* the nil *config.Backend returned beside an error
NoBackend == [URL |-> "", Weight |-> 0]

\* upstream definitions the policies are run on (weights as validateBackend leaves
\* them: positive); the empty slice is what SelectBackend's first test is for
Upstreams ==
    { <<>>,
      <<Backend("A", 1), Backend("B", 3)>>,
      <<Backend("A", 2), Backend("B", 1), Backend("C", 1)>> }

\* further upstream definitions, for the runs whose health snapshot is fixed
MoreUpstreams ==
    { <<Backend("A", 3), Backend("B", 2), Backend("C", 1)>>,
      <<Backend("A", 5), Backend("B", 1), Backend("C", 1)>>,
      <<Backend("A", 1), Backend("B", 1), Backend("C", 1)>>,
      <<Backend("A", 1), Backend("B", 1), Backend("C", 1), Backend("D", 6),
        Backend("E", 6)>> }

URLsOf(bs) == {bs[i].URL : i \in DOMAIN bs}

\* the healthStatus maps a call may be given: any subset of the urls, any values
Snapshots(bs) == UNION {[S -> BOOLEAN] : S \in SUBSET URLsOf(bs)}

IgnoresHealth(h, u) == TRUE
\* healthy, exists := healthStatus[backend.URL]; !exists || healthy
CountsAsHealthy(h, u) == u \notin DOMAIN h \/ h[u]

\* the filter loop every policy starts with: healthyBackends, in slice order
HealthyBackends(bs, h) == SelectSeq(bs, LAMBDA b : CountsAsHealthy(h, b.URL))

RRNextStuck(counter) == counter
\* atomic.AddUint64(&rr.counter, 1); the counter stays far below 2^64 here
RRNext(counter) == counter + 1

\* index := (next - 1) % uint64(len(healthyBackends))
RRIndex(next, n) == (next - 1) % n

RECURSIVE SumWeights(_)
SumWeights(hb) ==
    IF hb = <<>> THEN 0 ELSE hb[1].Weight + SumWeights(Tail(hb))

TotalWeightOfUpstream(hb) == SumWeights(backends)
\* totalWeight, as the loop over healthyBackends accumulates it
TotalWeight(hb) == SumWeights(hb)

\* wrr.weights[backend.URL] += backend.Weight, for each healthy backend in turn
RECURSIVE AddWeights(_, _)
AddWeights(weights, hb) ==
    IF hb = <<>> THEN weights
    ELSE AddWeights([weights EXCEPT ![hb[1].URL] = @ + hb[1].Weight], Tail(hb))

\* the selection loop of the weighted policy from position i on, maxWeight and
\* selected (0 = nil) carried along: a strictly larger current weight replaces
RECURSIVE WRRScan(_, _, _, _, _)
WRRScan(hb, weights, i, maxWeight, selected) ==
    IF i > Len(hb) THEN selected
    ELSE IF weights[hb[i].URL] > maxWeight
         THEN WRRScan(hb, weights, i + 1, weights[hb[i].URL], i)
         ELSE WRRScan(hb, weights, i + 1, maxWeight, selected)

NotDeducted(weights, u, totalWeight) == weights

\* wrr.weights[selected.URL] -= totalWeight
Deducted(weights, u, totalWeight) == [weights EXCEPT ![u] = @ - totalWeight]

\* maxWeight := -1 before the loop
WRRSelected(hb, weights) == WRRScan(hb, weights, 1, -1, 0)

FewerOrEqual(connections, minConnections) ==
    minConnections = -1 \/ connections <= minConnections
\* minConnections == -1 || connections < minConnections
Fewer(connections, minConnections) ==
    minConnections = -1 \/ connections < minConnections

\* the selection loop of least-connections from position i on
RECURSIVE LCScan(_, _, _, _, _)
LCScan(hb, conns, i, minConnections, selected) ==
    IF i > Len(hb) THEN selected
    ELSE IF Fewer(conns[hb[i].URL], minConnections)
         THEN LCScan(hb, conns, i + 1, conns[hb[i].URL], i)
         ELSE LCScan(hb, conns, i + 1, minConnections, selected)

\* minConnections := int64(-1) before the loop
LCSelected(hb, conns) == LCScan(hb, conns, 1, -1, 0)

NoSelect == [op |-> "none", err |-> FALSE, ret |-> NoBackend, health |-> <<>>]

\* the record of a call that was given h and returned b, or the error with nil
Selected(op, h, b) == [op |-> op, err |-> b = NoBackend, ret |-> b, health |-> h]

BalInitWith(ups, algos, snapshotFixed) ==
    /\ backends \in ups
    /\ algorithm \in algos
    /\ health \in IF snapshotFixed THEN Snapshots(backends) ELSE {<<>>}
    /\ rrCounter = 0
    /\ wrrWeights = [u \in URLs |-> 0]
    /\ lcConnections = [u \in URLs |-> 0]
    /\ balpc = [t \in BalThreads |-> "idle"]
    /\ balLocal = [t \in BalThreads |-> [healthyBackends |-> <<>>, healthStatus |-> <<>>]]
    /\ balCalls = 0
    /\ balEvent = NoSelect
    /\ selCount = [u \in URLs |-> 0]
    /\ selDone = 0
    /\ lcIncrements = [u \in URLs |-> 0]
    /\ lcDecrements = [u \in URLs |-> 0]
    /\ lcEvent = [op |-> "none", url |-> "", before |-> 0]
    /\ wrrRun = [url |-> "", len |-> 0]

\* bookkeeping of a call that returns backend b (NoBackend with the error)
Returns(op, h, b) ==
    /\ balEvent' = Selected(op, h, b)
    /\ selDone' = selDone + 1
    /\ selCount' = IF b = NoBackend THEN selCount
                   ELSE [selCount EXCEPT ![b.URL] = @ + 1]

\* RoundRobin.SelectBackend up to the counter: the empty-slice test and the filter;
\* with nothing healthy it returns ErrNoHealthyBackends without touching the counter
RRFilter(t, h, cap) ==
    /\ algorithm = "round_robin"
    /\ balpc[t] = "idle"
    /\ balCalls < cap
    /\ balCalls' = balCalls + 1
    /\ health' = h
    /\ LET hb == HealthyBackends(backends, h)
       IN IF Len(backends) = 0 \/ Len(hb) = 0
          THEN /\ Returns("round_robin", h, NoBackend)
               /\ UNCHANGED <<balpc, balLocal>>
          ELSE /\ balpc' = [balpc EXCEPT ![t] = "filtered"]
               /\ balLocal' = [balLocal EXCEPT ![t] =
                                  [healthyBackends |-> hb, healthStatus |-> h]]
               /\ UNCHANGED <<balEvent, selDone, selCount>>
    /\ UNCHANGED <<lcHistory, wrrRun, backends, algorithm, rrCounter, wrrWeights, lcConnections>>
    /\ UNCHANGED <<now, rlVars, cbVars, hcVars, rtVars, pxVars>>

\* RoundRobin.SelectBackend: the atomic add, the index, the return
RRAdd(t) ==
    /\ balpc[t] = "filtered"
    /\ LET hb == balLocal[t].healthyBackends
           next == RRNext(rrCounter)
       IN /\ rrCounter' = next
          /\ Returns("round_robin", balLocal[t].healthStatus, hb[RRIndex(next, Len(hb)) + 1])
    /\ balpc' = [balpc EXCEPT ![t] = "idle"]
    /\ balLocal' = [balLocal EXCEPT ![t] =
                       [healthyBackends |-> <<>>, healthStatus |-> <<>>]]
    /\ UNCHANGED <<lcHistory, wrrRun, backends, algorithm, health, wrrWeights, lcConnections, balCalls>>
    /\ UNCHANGED <<now, rlVars, cbVars, hcVars, rtVars, pxVars>>

\* WeightedRoundRobin.SelectBackend, the whole call under wrr.mu
WRRSelect(h, cap) ==
    /\ algorithm = "weighted_round_robin"
    /\ balCalls < cap
    /\ balCalls' = balCalls + 1
    /\ health' = h
    /\ LET hb == HealthyBackends(backends, h)
       IN IF Len(backends) = 0 \/ Len(hb) = 0
          THEN /\ Returns("weighted_round_robin", h, NoBackend)
               /\ wrrRun' = [url |-> "", len |-> 0]
               /\ UNCHANGED wrrWeights
          ELSE LET added == AddWeights(wrrWeights, hb)
                   sel == WRRSelected(hb, added)
               IN IF sel = 0
                  THEN /\ Returns("weighted_round_robin", h, NoBackend)
                       /\ wrrRun' = [url |-> "", len |-> 0]
                       /\ wrrWeights' = added
                  ELSE /\ Returns("weighted_round_robin", h, hb[sel])
                       /\ wrrRun' = [url |-> hb[sel].URL,
                                     len |-> IF wrrRun.url = hb[sel].URL
                                             THEN wrrRun.len + 1 ELSE 1]
                       /\ wrrWeights' = Deducted(added, hb[sel].URL, TotalWeight(hb))
    /\ UNCHANGED <<lcHistory, backends, algorithm, rrCounter, lcConnections, balpc, balLocal>>
    /\ UNCHANGED <<now, rlVars, cbVars, hcVars, rtVars, pxVars>>

\* LeastConnections.SelectBackend, the whole call under lc.mu (read lock)
LCSelect(h, cap) ==
    /\ algorithm = "least_connections"
    /\ balCalls < cap
    /\ balCalls' = balCalls + 1
    /\ health' = h
    /\ LET hb == HealthyBackends(backends, h)
       IN IF Len(backends) = 0 \/ Len(hb) = 0
          THEN Returns("least_connections", h, NoBackend)
          ELSE LET sel == LCSelected(hb, lcConnections)
               IN Returns("least_connections", h, IF sel = 0 THEN NoBackend ELSE hb[sel])
    /\ UNCHANGED <<lcHistory, wrrRun, backends, algorithm, rrCounter, wrrWeights, lcConnections, balpc,
                   balLocal>>
    /\ UNCHANGED <<now, rlVars, cbVars, hcVars, rtVars, pxVars>>

DecrementedUnguarded(conns, u) == [conns EXCEPT ![u] = @ - 1]

\* lc.connections[backendURL]++
Incremented(conns, u) == [conns EXCEPT ![u] = @ + 1]

KeptOnDecrement(conns, u) == conns

\* if lc.connections[backendURL] > 0 { lc.connections[backendURL]-- }
Decremented(conns, u) == [conns EXCEPT ![u] = IF @ > 0 THEN @ - 1 ELSE @]

\* LeastConnections.IncrementConnections
IncrementConnections(u) ==
    /\ algorithm = "least_connections"
    /\ lcConnections[u] < MaxConnections
    /\ lcConnections' = Incremented(lcConnections, u)
    /\ balEvent' = NoSelect
    /\ UNCHANGED <<lcHistory, wrrRun, backends, algorithm, health, rrCounter, wrrWeights, balpc, balLocal,
                   balCalls, selCount, selDone>>
    /\ UNCHANGED <<now, rlVars, cbVars, hcVars, rtVars, pxVars>>

\* LeastConnections.DecrementConnections: only a positive count is decremented
DecrementConnections(u) ==
    /\ algorithm = "least_connections"
    /\ lcConnections' = Decremented(lcConnections, u)
    /\ balEvent' = NoSelect
    /\ UNCHANGED <<lcHistory, wrrRun, backends, algorithm, health, rrCounter, wrrWeights, balpc, balLocal,
                   balCalls, selCount, selDone>>
    /\ UNCHANGED <<now, rlVars, cbVars, hcVars, rtVars, pxVars>>

\* IncrementConnections / DecrementConnections called directly (as the connection
\* tracking test does), each call counted; a call holds lc.mu from start to end
CountedIncrement(u) ==
    /\ algorithm = "least_connections"
    /\ lcIncrements[u] + lcDecrements[u] < MaxConnectionCalls
    /\ lcConnections' = Incremented(lcConnections, u)
    /\ lcIncrements' = [lcIncrements EXCEPT ![u] = @ + 1]
    /\ lcEvent' = [op |-> "increment", url |-> u, before |-> lcConnections[u]]
    /\ UNCHANGED <<lcDecrements, wrrRun, backends, algorithm, health, rrCounter, wrrWeights, balpc,
                   balLocal, balCalls, balEvent, selCount, selDone>>
    /\ UNCHANGED <<now, rlVars, cbVars, hcVars, rtVars, pxVars>>

CountedDecrement(u) ==
    /\ algorithm = "least_connections"
    /\ lcEvent' = [op |-> "decrement", url |-> u, before |-> lcConnections[u]]
    /\ lcConnections' = Decremented(lcConnections, u)
    /\ lcDecrements' = [lcDecrements EXCEPT ![u] = IF lcConnections[u] > 0 THEN @ + 1 ELSE @]
    /\ UNCHANGED <<lcIncrements, wrrRun, backends, algorithm, health, rrCounter, wrrWeights, balpc,
                   balLocal, balCalls, balEvent, selCount, selDone>>
    /\ UNCHANGED <<now, rlVars, cbVars, hcVars, rtVars, pxVars>>

-----------------------------------------------------------------------------
(* Locks. Every call is the sequence of lock operations its code makes; the   *)
(* data the locks guard is modelled by the components above.                  *)

LKThreads == {1, 2, 3}
LockClients == {"c1"}
LockURLs == {"A", "B"}

\* the locks, as <<name, key>>
RlMu == <<"rl.mu", "">>
ClientMu(c) == <<"client.mu", c>>
StatusMutex == <<"hc.statusMutex", "">>
StatusMu(u) == <<"status.mu", u>>
CbMu == <<"cb.mu", "">>
WrrMu == <<"wrr.mu", "">>
LcMu == <<"lc.mu", "">>

Lock(l) == <<"Lock", l>>
Unlock(l) == <<"Unlock", l>>
RLock(l) == <<"RLock", l>>
RUnlock(l) == <<"RUnlock", l>>

AllowLocksNested(c) == <<Lock(ClientMu(c)), Lock(RlMu), Unlock(RlMu), Unlock(ClientMu(c))>>

\* RateLimiter.Allow: rl.mu around the map lookup, then client.mu to the end
AllowLocks(c) == <<Lock(RlMu), Unlock(RlMu), Lock(ClientMu(c)), Unlock(ClientMu(c))>>

\* RateLimiter.GetUsage: rl.mu read-locked around the lookup, then client.mu if the
\* client exists
GetUsageLocks(c, exists) ==
    <<RLock(RlMu), RUnlock(RlMu)>> \o
    (IF exists THEN <<Lock(ClientMu(c)), Unlock(ClientMu(c))>> ELSE <<>>)

\* RateLimiter.Cleanup: rl.mu to the end, and inside it client.mu of each client of the
\* map in turn (cs: the clients in the order the range yields them)
RECURSIVE EachClient(_)
EachClient(cs) ==
    IF cs = <<>> THEN <<>>
    ELSE <<Lock(ClientMu(Head(cs))), Unlock(ClientMu(Head(cs)))>> \o EachClient(Tail(cs))

CleanupLocks(cs) == <<Lock(RlMu)>> \o EachClient(cs) \o <<Unlock(RlMu)>>

\* Checker.IsHealthy and Checker.GetStatus: hc.statusMutex read-locked to the end, and
\* inside it status.mu read-locked if the url has a Status
IsHealthyLocks(u, exists) ==
    IF exists
    THEN <<RLock(StatusMutex), RLock(StatusMu(u)), RUnlock(StatusMu(u)),
           RUnlock(StatusMutex)>>
    ELSE <<RLock(StatusMutex), RUnlock(StatusMutex)>>

\* Checker.GetAllStatuses: hc.statusMutex read-locked to the end, and inside it
\* status.mu of each Status in turn
RECURSIVE EachStatus(_)
EachStatus(us) ==
    IF us = <<>> THEN <<>>
    ELSE <<RLock(StatusMu(Head(us))), RUnlock(StatusMu(Head(us)))>> \o EachStatus(Tail(us))

GetAllStatusesLocks(us) == <<RLock(StatusMutex)>> \o EachStatus(us) \o <<RUnlock(StatusMutex)>>

\* Checker.updateBackendStatus: hc.statusMutex read-locked around the lookup, then
\* status.mu to the end if the url has a Status
UpdateBackendStatusLocks(u, exists) ==
    <<RLock(StatusMutex), RUnlock(StatusMutex)>> \o
    (IF exists THEN <<Lock(StatusMu(u)), Unlock(StatusMu(u))>> ELSE <<>>)

\* Checker.Start: hc.statusMutex around the creation of the statuses
StartLocks == <<Lock(StatusMutex), Unlock(StatusMutex)>>

\* CircuitBreaker.CanAttempt: cb.mu read-locked around the lookup, then cb.mu to the end
\* if the url is tracked
CanAttemptLocks(exists) ==
    <<RLock(CbMu), RUnlock(CbMu)>> \o (IF exists THEN <<Lock(CbMu), Unlock(CbMu)>> ELSE <<>>)

\* CircuitBreaker.RecordSuccess, RecordFailure and Reset: cb.mu to the end
RecordLocks == <<Lock(CbMu), Unlock(CbMu)>>

\* CircuitBreaker.GetState: cb.mu read-locked to the end
GetStateLocks == <<RLock(CbMu), RUnlock(CbMu)>>

\* WeightedRoundRobin.SelectBackend: wrr.mu to the end (RoundRobin takes no lock)
WRRSelectLocks == <<Lock(WrrMu), Unlock(WrrMu)>>

\* LeastConnections.SelectBackend and GetConnections: lc.mu read-locked to the end
LCSelectLocks == <<RLock(LcMu), RUnlock(LcMu)>>

\* LeastConnections.IncrementConnections and DecrementConnections: lc.mu to the end
LCCountLocks == <<Lock(LcMu), Unlock(LcMu)>>

\* the orders in which a range over a map with the keys of ks can yield them
Orders(ks) ==
    {<<>>} \cup {<<k>> : k \in ks} \cup {<<j, k>> : <<j, k>> \in {p \in ks \X ks : p[1] # p[2]}}

\* the calls a goroutine can make
Calls ==
    {AllowLocks(c) : c \in LockClients}
    \cup {GetUsageLocks(c, e) : c \in LockClients, e \in BOOLEAN}
    \cup {CleanupLocks(cs) : cs \in Orders(LockClients)}
    \cup {IsHealthyLocks(u, e) : u \in LockURLs, e \in BOOLEAN}
    \cup {GetAllStatusesLocks(us) : us \in Orders(LockURLs)}
    \cup {UpdateBackendStatusLocks(u, e) : u \in LockURLs, e \in BOOLEAN}
    \cup {StartLocks}
    \cup {CanAttemptLocks(e) : e \in BOOLEAN}
    \cup {RecordLocks, GetStateLocks, WRRSelectLocks, LCSelectLocks, LCCountLocks}

\* no goroutine is inside a call
LKInit ==
    /\ lkScript = [t \in LKThreads |-> <<>>]
    /\ lkHeld = [t \in LKThreads |-> <<>>]
    /\ lkPending = [t \in LKThreads |-> FALSE]

Holds(t, l, mode) == \E i \in 1..Len(lkHeld[t]) : lkHeld[t][i] = <<l, mode>>

\* sync.RWMutex and sync.Mutex: Lock() gets the lock when nobody holds it
LockFree(t, l) == \A o \in LKThreads : ~Holds(o, l, "W") /\ ~Holds(o, l, "R")

\* sync.RWMutex: RLock() gets the lock when no writer holds it and none is waiting in
\* Lock()
RLockFree(t, l) ==
    \A o \in LKThreads :
        /\ ~Holds(o, l, "W")
        /\ ~(lkPending[o] /\ lkScript[o] # <<>> /\ Head(lkScript[o]) = Lock(l))

\* the goroutine's next lock operation can complete now
Runnable(t) ==
    /\ lkScript[t] # <<>>
    /\ LET step == Head(lkScript[t])
       IN CASE step[1] = "Lock" -> ~lkPending[t] \/ LockFree(t, step[2])
            [] step[1] = "RLock" -> RLockFree(t, step[2])
            [] OTHER -> TRUE

\* a goroutine starts a call
Call(t, script) ==
    /\ lkScript[t] = <<>>
    /\ lkScript' = [lkScript EXCEPT ![t] = script]
    /\ UNCHANGED <<lkHeld, lkPending>>
    /\ UNCHANGED <<hcEnabled, hcStarted, hcStatuses, hcCancelled, hcProber, hcStop,
                   stReport, hcProbes, hcEvent>>
    /\ UNCHANGED <<now, rlVars, cbVars, balVars, rtVars, pxVars>>

\* Lock() is entered: from now on the lock admits no new reader
LockEnter(t) ==
    /\ lkScript[t] # <<>>
    /\ Head(lkScript[t])[1] = "Lock"
    /\ ~lkPending[t]
    /\ lkPending' = [lkPending EXCEPT ![t] = TRUE]
    /\ UNCHANGED <<lkScript, lkHeld>>
    /\ UNCHANGED <<hcEnabled, hcStarted, hcStatuses, hcCancelled, hcProber, hcStop,
                   stReport, hcProbes, hcEvent>>
    /\ UNCHANGED <<now, rlVars, cbVars, balVars, rtVars, pxVars>>

\* Lock() returns
LockReturn(t) ==
    /\ lkScript[t] # <<>>
    /\ Head(lkScript[t])[1] = "Lock"
    /\ lkPending[t]
    /\ Runnable(t)
    /\ lkHeld' = [lkHeld EXCEPT ![t] = Append(@, <<Head(lkScript[t])[2], "W">>)]
    /\ lkPending' = [lkPending EXCEPT ![t] = FALSE]
    /\ lkScript' = [lkScript EXCEPT ![t] = Tail(@)]
    /\ UNCHANGED <<hcEnabled, hcStarted, hcStatuses, hcCancelled, hcProber, hcStop,
                   stReport, hcProbes, hcEvent>>
    /\ UNCHANGED <<now, rlVars, cbVars, balVars, rtVars, pxVars>>

\* RLock() returns
RLockReturn(t) ==
    /\ lkScript[t] # <<>>
    /\ Head(lkScript[t])[1] = "RLock"
    /\ Runnable(t)
    /\ lkHeld' = [lkHeld EXCEPT ![t] = Append(@, <<Head(lkScript[t])[2], "R">>)]
    /\ lkScript' = [lkScript EXCEPT ![t] = Tail(@)]
    /\ UNCHANGED lkPending
    /\ UNCHANGED <<hcEnabled, hcStarted, hcStatuses, hcCancelled, hcProber, hcStop,
                   stReport, hcProbes, hcEvent>>
    /\ UNCHANGED <<now, rlVars, cbVars, balVars, rtVars, pxVars>>

\* the held locks without lock l
RECURSIVE Without(_, _)
Without(held, l) ==
    IF held = <<>> THEN <<>>
    ELSE IF Head(held)[1] = l THEN Tail(held)
    ELSE <<Head(held)>> \o Without(Tail(held), l)

\* Unlock() or RUnlock()
Release(t) ==
    /\ lkScript[t] # <<>>
    /\ Head(lkScript[t])[1] \in {"Unlock", "RUnlock"}
    /\ lkHeld' = [lkHeld EXCEPT ![t] = Without(@, Head(lkScript[t])[2])]
    /\ lkScript' = [lkScript EXCEPT ![t] = Tail(@)]
    /\ UNCHANGED lkPending
    /\ UNCHANGED <<hcEnabled, hcStarted, hcStatuses, hcCancelled, hcProber, hcStop,
                   stReport, hcProbes, hcEvent>>
    /\ UNCHANGED <<now, rlVars, cbVars, balVars, rtVars, pxVars>>

-----------------------------------------------------------------------------
(* Health checker.                                                         *)

\* Status{Healthy: true, LastCheck: time.Now()}: the entry Start creates
NewStatus(t) ==
    [Healthy |-> TRUE, LastCheck |-> t,
     ConsecutiveSuccesses |-> 0, ConsecutiveFailures |-> 0]

\* hcEvent before any probe
NoProbe == [url |-> "", healthy |-> FALSE, before |-> NewStatus(0)]

PassedThreshold(n, threshold) == n > threshold
\* ConsecutiveSuccesses >= HealthyThreshold, ConsecutiveFailures >= UnhealthyThreshold
ReachedThreshold(n, threshold) == n >= threshold

GoodProbeKeepsFailures(s, t) ==
    LET successes == s.ConsecutiveSuccesses + 1
    IN [Healthy |-> IF ~s.Healthy /\ ReachedThreshold(successes, HealthyThreshold)
                    THEN TRUE ELSE s.Healthy,
        LastCheck |-> t,
        ConsecutiveSuccesses |-> successes,
        ConsecutiveFailures |-> s.ConsecutiveFailures]
\* the healthy branch of updateBackendStatus
GoodProbe(s, t) ==
    LET successes == s.ConsecutiveSuccesses + 1
    IN [Healthy |-> IF ~s.Healthy /\ ReachedThreshold(successes, HealthyThreshold)
                    THEN TRUE ELSE s.Healthy,
        LastCheck |-> t,
        ConsecutiveSuccesses |-> successes,
        ConsecutiveFailures |-> 0]

BadProbeKeepsSuccesses(s, t) ==
    LET failures == s.ConsecutiveFailures + 1
    IN [Healthy |-> IF s.Healthy /\ ReachedThreshold(failures, UnhealthyThreshold)
                    THEN FALSE ELSE s.Healthy,
        LastCheck |-> t,
        ConsecutiveSuccesses |-> s.ConsecutiveSuccesses,
        ConsecutiveFailures |-> failures]
\* the unhealthy branch of updateBackendStatus
BadProbe(s, t) ==
    LET failures == s.ConsecutiveFailures + 1
    IN [Healthy |-> IF s.Healthy /\ ReachedThreshold(failures, UnhealthyThreshold)
                    THEN FALSE ELSE s.Healthy,
        LastCheck |-> t,
        ConsecutiveSuccesses |-> 0,
        ConsecutiveFailures |-> failures]

\* updateBackendStatus: hc.statuses afterwards (an unknown url changes nothing)
UpdatedStatuses(statuses, u, healthy, t) ==
    IF u \notin DOMAIN statuses
    THEN statuses
    ELSE [statuses EXCEPT ![u] = IF healthy THEN GoodProbe(@, t) ELSE BadProbe(@, t)]

\* GetAllStatuses: the url -> Healthy snapshot handed to the policies
GetAllStatuses(statuses) == [u \in DOMAIN statuses |-> statuses[u].Healthy]

LiveHealth(snapshot, statuses) == GetAllStatuses(statuses)

\* the healthStatus the closure hands to lb.SelectBackend: the map ServeHTTP read before
\* h.retrier.Do, whatever hc.statuses holds by now
AttemptHealth(snapshot, statuses) == snapshot

\* IsHealthy: a url without a Status is healthy
IsHealthy(statuses, u) == IF u \in DOMAIN statuses THEN statuses[u].Healthy ELSE TRUE

MissingCountsAsHealthy(snapshot, u) == u \notin DOMAIN snapshot \/ snapshot[u]

\* statusHandler: if healthy, exists := statuses[backend.URL]; exists && healthy
CountedHealthy(snapshot, u) == u \in DOMAIN snapshot /\ snapshot[u]

\* stReport before any /status request
NoReport ==
    [served |-> FALSE, statuses |-> <<>>, isHealthy |-> <<>>,
     total |-> 0, healthy |-> 0, unhealthy |-> 0]

\* statusHandler: the counts over the configured backends bs, from the GetAllStatuses
\* snapshot; isHealthy keeps what IsHealthy answers for each of them at that moment
StatusReport(statuses, bs) ==
    LET snapshot == GetAllStatuses(statuses)
        healthyCount == Cardinality({i \in DOMAIN bs : CountedHealthy(snapshot, bs[i].URL)})
    IN [served |-> TRUE, statuses |-> snapshot,
        isHealthy |-> [u \in URLsOf(bs) |-> IsHealthy(statuses, u)],
        total |-> Len(bs), healthy |-> healthyCount, unhealthy |-> Len(bs) - healthyCount]

NoWait(prober) == TRUE

\* hc.wg.Wait() returns: every checkBackend goroutine has called wg.Done
AllExited(prober) == \A u \in DOMAIN prober : prober[u] # "running"

\* NewChecker: no status yet, no goroutine
HCInitWith(enabled) ==
    /\ hcEnabled \in enabled
    /\ hcStarted = FALSE
    /\ hcStatuses = <<>>
    /\ hcCancelled = FALSE
    /\ hcProber = [u \in URLs |-> "none"]
    /\ hcStop = "idle"
    /\ stReport = NoReport
    /\ hcProbes = 0
    /\ hcEvent = NoProbe
    /\ LKInit

\* Start: when enabled, one Status per backend url that has none, one probe goroutine
\* per backend
Start ==
    /\ ~hcStarted
    /\ hcStarted' = TRUE
    /\ hcStatuses' =
           IF hcEnabled
           THEN [u \in DOMAIN hcStatuses \cup URLsOf(backends) |->
                    IF u \in DOMAIN hcStatuses THEN hcStatuses[u] ELSE NewStatus(now)]
           ELSE hcStatuses
    /\ hcProber' = [u \in URLs |->
                       IF hcEnabled /\ u \in URLsOf(backends) THEN "running" ELSE "none"]
    /\ UNCHANGED lkVars
    /\ UNCHANGED <<hcEnabled, hcCancelled, hcStop, stReport, hcProbes, hcEvent>>
    /\ UNCHANGED <<now, rlVars, cbVars, balVars, rtVars, pxVars>>

\* one tick of a probe goroutine (the select of checkBackend takes ticker.C, also when
\* hc.ctx is done as well): performHealthCheck reports the probe's outcome to
\* updateBackendStatus (healthy = the probe got a 2xx answer in time)
PerformHealthCheck(u, healthy) ==
    /\ hcStarted
    /\ hcEnabled
    /\ u \in URLsOf(backends)
    /\ hcProber[u] = "running"
    /\ hcProbes < MaxProbes
    /\ hcStatuses' = UpdatedStatuses(hcStatuses, u, healthy, now)
    /\ hcProbes' = hcProbes + 1
    /\ hcEvent' = [url |-> u, healthy |-> healthy,
                   before |-> IF u \in DOMAIN hcStatuses THEN hcStatuses[u] ELSE NewStatus(0)]
    /\ UNCHANGED lkVars
    /\ UNCHANGED <<hcEnabled, hcStarted, hcCancelled, hcProber, hcStop, stReport>>
    /\ UNCHANGED <<now, rlVars, cbVars, balVars, rtVars, pxVars>>

\* checkBackend: the select takes hc.ctx.Done(), the goroutine returns and the deferred
\* hc.wg.Done() runs
ProberExit(u) ==
    /\ hcProber[u] = "running"
    /\ hcCancelled
    /\ hcProber' = [hcProber EXCEPT ![u] = "exited"]
    /\ UNCHANGED lkVars
    /\ UNCHANGED <<hcEnabled, hcStarted, hcStatuses, hcCancelled, hcStop, stReport,
                   hcProbes, hcEvent>>
    /\ UNCHANGED <<now, rlVars, cbVars, balVars, rtVars, pxVars>>

\* Stop, first half: hc.cancel(), then the call blocks in hc.wg.Wait(); the server calls
\* it at shutdown, after Start
Stop ==
    /\ hcStarted
    /\ hcStop = "idle"
    /\ hcCancelled' = TRUE
    /\ hcStop' = "waiting"
    /\ UNCHANGED lkVars
    /\ UNCHANGED <<hcEnabled, hcStarted, hcStatuses, hcProber, stReport, hcProbes, hcEvent>>
    /\ UNCHANGED <<now, rlVars, cbVars, balVars, rtVars, pxVars>>

\* Stop, second half: hc.wg.Wait() returns and so does Stop
StopReturn ==
    /\ hcStop = "waiting"
    /\ AllExited(hcProber)
    /\ hcStop' = "returned"
    /\ UNCHANGED lkVars
    /\ UNCHANGED <<hcEnabled, hcStarted, hcStatuses, hcCancelled, hcProber, stReport,
                   hcProbes, hcEvent>>
    /\ UNCHANGED <<now, rlVars, cbVars, balVars, rtVars, pxVars>>

\* LoadBalancerServer.statusHandler: one GET /status
StatusHandler ==
    /\ stReport' = StatusReport(hcStatuses, backends)
    /\ UNCHANGED lkVars
    /\ UNCHANGED <<hcEnabled, hcStarted, hcStatuses, hcCancelled, hcProber, hcStop,
                   hcProbes, hcEvent>>
    /\ UNCHANGED <<now, rlVars, cbVars, balVars, rtVars, pxVars>>

-----------------------------------------------------------------------------
(* Retrier.                                                                *)

\* the errors the dispatcher's closure returns
ErrNoHealthyBackends == "no healthy backends available"
ErrCircuitOpen == "circuit breaker open"
ErrBackend == "backend error"
FnErrors == {ErrNoHealthyBackends, ErrCircuitOpen, ErrBackend}

\* <<InitialBackoff, MaxBackoff>> in milliseconds, InitialBackoff <= MaxBackoff
BackoffConfigs == {<<100, 200>>, <<100, 400>>, <<200, 200>>}

\* rand.Float64()*0.5 + 0.75, in percent
Jitters == {75, 90, 100, 110, 124}

RECURSIVE Pow2(_)
Pow2(n) == IF n <= 0 THEN 1 ELSE 2 * Pow2(n - 1)

IgnoresEnabled(enabled, maxAttempts) == maxAttempts
\* maxAttempts := r.config.MaxAttempts; if !r.config.Enabled { maxAttempts = 1 }
DoMaxAttempts(enabled, maxAttempts) == IF ~enabled THEN 1 ELSE maxAttempts

ShouldRetry(err) == err # "nil"

\* calculateBackoff: double per attempt, cap at MaxBackoff, then multiply by the jitter
\* and truncate to a Duration
calculateBackoff(attempt, jitter) ==
    LET backoff == rtInitialBackoff * Pow2(attempt - 1)
        capped == IF backoff > rtMaxBackoff THEN rtMaxBackoff ELSE backoff
    IN (capped * jitter) \div 100

RTInitWith(enabled, attempts, backoffs) ==
    /\ rtEnabled \in enabled
    /\ rtMaxAttempts \in attempts
    /\ \E c \in backoffs : rtInitialBackoff = c[1] /\ rtMaxBackoff = c[2]
    /\ dopc = [r \in Requests |-> "idle"]
    /\ doAttempt = [r \in Requests |-> 0]
    /\ doLastErr = [r \in Requests |-> "nil"]
    /\ doRet = [r \in Requests |-> "nil"]
    /\ doCalls = 0
    /\ doInvocations = [r \in Requests |-> 0]
    /\ doLastFn = [r \in Requests |-> ""]
    /\ doSlept = [r \in Requests |-> -1]

\* Do up to the first test of the loop: the closure is invoked when 1 <= maxAttempts
DoEnter(r) ==
    LET maxAttempts == DoMaxAttempts(rtEnabled, rtMaxAttempts)
    IN /\ doCalls' = doCalls + 1
       /\ doAttempt' = [doAttempt EXCEPT ![r] = 1]
       /\ doLastErr' = [doLastErr EXCEPT ![r] = "nil"]
       /\ doLastFn' = [doLastFn EXCEPT ![r] = ""]
       /\ doSlept' = [doSlept EXCEPT ![r] = -1]
       /\ IF 1 <= maxAttempts
          THEN /\ dopc' = [dopc EXCEPT ![r] = "fn"]
               /\ doInvocations' = [doInvocations EXCEPT ![r] = 1]
               /\ UNCHANGED doRet
          ELSE /\ dopc' = [dopc EXCEPT ![r] = "returned"]
               /\ doInvocations' = [doInvocations EXCEPT ![r] = 0]
               /\ doRet' = [doRet EXCEPT ![r] = "nil"]
       /\ UNCHANGED <<rtEnabled, rtMaxAttempts, rtInitialBackoff, rtMaxBackoff>>

\* the loop body after fn() returned err, up to the next invocation, sleep or return
FnReturned(r, err) ==
    LET maxAttempts == DoMaxAttempts(rtEnabled, rtMaxAttempts)
        attempt == doAttempt[r]
    IN /\ doLastFn' = [doLastFn EXCEPT ![r] = err]
       /\ IF err = "nil"
          THEN /\ dopc' = [dopc EXCEPT ![r] = "returned"]
               /\ doRet' = [doRet EXCEPT ![r] = "nil"]
               /\ UNCHANGED <<doAttempt, doLastErr, doInvocations>>
          ELSE /\ doLastErr' = [doLastErr EXCEPT ![r] = err]
               /\ IF attempt < maxAttempts /\ ShouldRetry(err)
                  THEN /\ dopc' = [dopc EXCEPT ![r] = "sleep"]
                       /\ UNCHANGED <<doAttempt, doRet, doInvocations>>
                  ELSE /\ doAttempt' = [doAttempt EXCEPT ![r] = attempt + 1]
                       /\ IF attempt + 1 <= maxAttempts
                          THEN /\ dopc' = [dopc EXCEPT ![r] = "fn"]
                               /\ doInvocations' = [doInvocations EXCEPT ![r] = @ + 1]
                               /\ UNCHANGED doRet
                          ELSE /\ dopc' = [dopc EXCEPT ![r] = "returned"]
                               /\ doRet' = [doRet EXCEPT ![r] = err]
                               /\ UNCHANGED doInvocations
       /\ UNCHANGED <<rtEnabled, rtMaxAttempts, rtInitialBackoff, rtMaxBackoff,
                      doCalls, doSlept>>

\* a caller starts Do
Do(r) ==
    /\ dopc[r] \in {"idle", "returned"}
    /\ doCalls < MaxDoCalls
    /\ DoEnter(r)
    /\ UNCHANGED <<now, rlVars, cbVars, balVars, hcVars, pxVars>>

\* the closure of a caller returns err
FnReturns(r, err) ==
    /\ dopc[r] = "fn"
    /\ FnReturned(r, err)
    /\ UNCHANGED <<now, rlVars, cbVars, balVars, hcVars, pxVars>>

\* time.Sleep(r.calculateBackoff(attempt)), attempt++ and the next invocation: Sleep is
\* reached with attempt < maxAttempts only, so the loop test passes
Sleep(r, jitter) ==
    /\ dopc[r] = "sleep"
    /\ doSlept' = [doSlept EXCEPT ![r] = calculateBackoff(doAttempt[r], jitter)]
    /\ doAttempt' = [doAttempt EXCEPT ![r] = @ + 1]
    /\ dopc' = [dopc EXCEPT ![r] = "fn"]
    /\ doInvocations' = [doInvocations EXCEPT ![r] = @ + 1]
    /\ UNCHANGED <<rtEnabled, rtMaxAttempts, rtInitialBackoff, rtMaxBackoff,
                   doLastErr, doRet, doCalls, doLastFn>>
    /\ UNCHANGED <<now, rlVars, cbVars, balVars, hcVars, pxVars>>

-----------------------------------------------------------------------------
(* Dispatcher.                                                             *)

\* no request is being served
PXInitWith(upstreams, metrics) ==
    /\ pxUpstreams \in upstreams
    /\ mxEnabled \in metrics
    /\ pxMetrics = [r \in Requests |-> <<>>]
    /\ pxpc = [r \in Requests |-> "idle"]
    /\ pxSnapshot = [r \in Requests |-> <<>>]
    /\ pxSelected = [r \in Requests |-> ""]
    /\ pxWrapped = [r \in Requests |-> 0]
    /\ pxGone = [r \in Requests |-> FALSE]
    /\ pxWrites = [r \in Requests |-> <<>>]
    /\ pxLog = [r \in Requests |-> <<>>]

\* one upstream configured, metrics collected
PXInit == PXInitWith({1}, {TRUE})

\* the answers an attempt can get from a backend: a transport error (nothing written to
\* the client) or a response with a status code
TransportError == 0
Outcomes == {TransportError, 200, 404, 500}

\* the health checker as a serving dispatcher finds it: disabled, or started with every
\* backend either as Start left it or turned unhealthy by UnhealthyThreshold bad probes
HCInitServing ==
    /\ hcEnabled \in BOOLEAN
    /\ hcStarted = TRUE
    /\ hcStatuses \in
          IF hcEnabled
          THEN [URLsOf(backends) ->
                   {NewStatus(0),
                    [Healthy |-> FALSE, LastCheck |-> 0, ConsecutiveSuccesses |-> 0,
                     ConsecutiveFailures |-> UnhealthyThreshold]}]
          ELSE {<<>>}
    /\ hcCancelled = FALSE
    /\ hcProber = [u \in URLs |->
                      IF hcEnabled /\ u \in URLsOf(backends) THEN "running" ELSE "none"]
    /\ hcStop = "idle"
    /\ stReport = NoReport
    /\ hcProbes = 0
    /\ hcEvent = NoProbe
    /\ LKInit

NeverLimited(allowed) == FALSE
\* if !rateLimiter.Allow(clientIP)
RateLimited(allowed) == ~allowed

IsServerOrClientError(proxyErr, statusCode) == proxyErr \/ statusCode >= 400
\* if proxyErr || wrappedWriter.statusCode >= 500
IsFailure(proxyErr, statusCode) == proxyErr \/ statusCode >= 500

\* Collector.RecordRequest: counts the request unless the collector is disabled
RecordRequest(events, enabled, backend, status) ==
    IF enabled THEN Append(events, [backend |-> backend, status |-> status]) ELSE events

WriteErrorAlwaysRecords(upstreams) == TRUE

\* writeError: if h.metrics != nil && len(h.config.Upstreams) > 0
WriteErrorRecords(upstreams) == upstreams > 0

\* the events counted after writeError answered with the status
WriteErrorMetrics(events, status) ==
    IF WriteErrorRecords(pxUpstreams)
    THEN RecordRequest(events, mxEnabled, "error", status) ELSE events

\* wrappedWriter == nil || wrappedWriter.statusCode == http.StatusOK
NothingWritten(wrapped) == wrapped = 0 \/ wrapped = 200

\* lb.SelectBackend on the policy object: the backend returned (NoBackend beside the
\* error) and the policy state left behind
SelectBackend(h) ==
    LET hb == HealthyBackends(backends, h)
        same == [ret |-> NoBackend, counter |-> rrCounter, weights |-> wrrWeights]
    IN IF Len(backends) = 0 \/ Len(hb) = 0
       THEN same
       ELSE IF algorithm = "round_robin"
       THEN LET next == RRNext(rrCounter)
            IN [same EXCEPT !.ret = hb[RRIndex(next, Len(hb)) + 1], !.counter = next]
       ELSE IF algorithm = "weighted_round_robin"
       THEN LET added == AddWeights(wrrWeights, hb)
                sel == WRRSelected(hb, added)
            IN IF sel = 0
               THEN [same EXCEPT !.weights = added]
               ELSE [same EXCEPT !.ret = hb[sel],
                                 !.weights = Deducted(added, hb[sel].URL,
                                                      TotalWeight(hb))]
       ELSE LET sel == LCSelected(hb, lcConnections)
            IN IF sel = 0 THEN same ELSE [same EXCEPT !.ret = hb[sel]]

\* the record of a finished attempt
Attempted(u, contacted, wrote, recorded, err) ==
    [url |-> u, contacted |-> contacted, wrote |-> wrote, recorded |-> recorded,
     err |-> err]

\* ServeHTTP without an upstream: 503 "No upstreams configured" through writeError, before
\* the rate limiter is asked
ServeHTTPNoUpstreams(r) ==
    /\ pxpc[r] \in {"idle", "done"}
    /\ pxUpstreams = 0
    /\ pxWrites' = [pxWrites EXCEPT ![r] = <<<<0, 503>>>>]
    /\ pxMetrics' = [pxMetrics EXCEPT ![r] = WriteErrorMetrics(<<>>, 503)]
    /\ pxpc' = [pxpc EXCEPT ![r] = "done"]
    /\ pxSnapshot' = [pxSnapshot EXCEPT ![r] = <<>>]
    /\ pxSelected' = [pxSelected EXCEPT ![r] = ""]
    /\ pxWrapped' = [pxWrapped EXCEPT ![r] = 0]
    /\ pxGone' = [pxGone EXCEPT ![r] = FALSE]
    /\ pxLog' = [pxLog EXCEPT ![r] = <<>>]
    /\ UNCHANGED <<pxUpstreams, mxEnabled>>
    /\ UNCHANGED <<now, rlVars, cbVars, balVars, hcVars, rtVars>>

\* ServeHTTP up to the rate-limit check: Allow for the client (both of its critical
\* sections; no Cleanup runs beside the dispatcher), then 429 and return, or go on
ServeHTTP(r, c, cap) ==
    /\ pxpc[r] \in {"idle", "done"}
    /\ pxUpstreams > 0
    /\ rlCalls < cap
    /\ rlCalls' = rlCalls + 1
    /\ rlArg' = [rlArg EXCEPT ![r] = c]
    /\ LET id == IF rlClients[c] # 0 THEN rlClients[c] ELSE FreeId(rlClients, rlRef)
           valid == ValidRequests(rlHeap[id], now - WindowSize)
           allowed == ~rlEnabled \/ ~AtLimit(Len(valid))
       IN /\ IF rlEnabled
             THEN /\ rlClients' = [rlClients EXCEPT ![c] = id]
                  /\ rlHeap' = [rlHeap EXCEPT ![id] = Recorded(valid, allowed, now)]
             ELSE UNCHANGED <<rlClients, rlHeap>>
          /\ rlRet' = [rlRet EXCEPT ![r] = allowed]
          /\ IF RateLimited(allowed)
             THEN /\ pxWrites' = [pxWrites EXCEPT ![r] = <<<<0, 429>>>>]
                  /\ pxMetrics' = [pxMetrics EXCEPT ![r] = WriteErrorMetrics(<<>>, 429)]
                  /\ pxpc' = [pxpc EXCEPT ![r] = "done"]
             ELSE /\ pxWrites' = [pxWrites EXCEPT ![r] = <<>>]
                  /\ pxMetrics' = [pxMetrics EXCEPT ![r] = <<>>]
                  /\ pxpc' = [pxpc EXCEPT ![r] = "health"]
    /\ pxSnapshot' = [pxSnapshot EXCEPT ![r] = <<>>]
    /\ pxSelected' = [pxSelected EXCEPT ![r] = ""]
    /\ pxWrapped' = [pxWrapped EXCEPT ![r] = 0]
    /\ pxGone' = [pxGone EXCEPT ![r] = FALSE]
    /\ pxLog' = [pxLog EXCEPT ![r] = <<>>]
    /\ UNCHANGED <<pxUpstreams, mxEnabled>>
    /\ UNCHANGED <<now, rlEnabled, rlMu, rlpc, rlRef, clPc, clTodo, clCur, clStart,
                   clHasValid, rlAdmitted, rlShadow, rlShadowRet>>
    /\ UNCHANGED <<cbVars, balVars, hcVars, rtVars>>

\* healthStatus = h.healthChecker.GetAllStatuses(), then h.retrier.Do is entered
ReadHealth(r) ==
    /\ pxpc[r] = "health"
    /\ pxSnapshot' = [pxSnapshot EXCEPT ![r] = GetAllStatuses(hcStatuses)]
    /\ DoEnter(r)
    /\ pxpc' = [pxpc EXCEPT ![r] = "select"]
    /\ UNCHANGED <<pxSelected, pxWrapped, pxGone, pxWrites, pxLog,
                   pxUpstreams, mxEnabled, pxMetrics>>
    /\ UNCHANGED <<now, rlVars, cbVars, balVars, hcVars>>

\* the closure: lb.SelectBackend; its error is returned to the retrier
ClosureSelect(r) ==
    /\ dopc[r] = "fn"
    /\ pxpc[r] = "select"
    /\ LET sel == SelectBackend(AttemptHealth(pxSnapshot[r], hcStatuses))
       IN /\ rrCounter' = sel.counter
          /\ wrrWeights' = sel.weights
          /\ IF sel.ret = NoBackend
             THEN /\ FnReturned(r, ErrNoHealthyBackends)
                  /\ pxLog' = [pxLog EXCEPT ![r] =
                      Append(@, Attempted("", FALSE, FALSE, "none", ErrNoHealthyBackends))]
                  /\ UNCHANGED <<pxpc, pxSelected>>
             ELSE /\ pxSelected' = [pxSelected EXCEPT ![r] = sel.ret.URL]
                  /\ pxpc' = [pxpc EXCEPT ![r] = "breaker"]
                  /\ UNCHANGED <<rtVars, pxLog>>
    /\ UNCHANGED <<pxSnapshot, pxWrapped, pxGone, pxWrites, pxUpstreams, mxEnabled,
                   pxMetrics>>
    /\ UNCHANGED <<lcHistory, wrrRun, backends, algorithm, health, lcConnections, balpc, balLocal,
                   balCalls, balEvent, selCount, selDone>>
    /\ UNCHANGED <<now, rlVars, cbVars, hcVars>>

\* the closure: h.circuitBreaker.CanAttempt (both of its sections); false is returned
\* to the retrier as an error
ClosureCanAttempt(r) ==
    /\ dopc[r] = "fn"
    /\ pxpc[r] = "breaker"
    /\ LET u == pxSelected[r]
           s == cbBackends[u]
           res == IF BreakerOff(cbEnabled) \/ ~s.tracked
                  THEN <<TRUE, s>> ELSE AttemptState(s, now)
       IN /\ cbBackends' = Stored(cbBackends, u, res[2])
          /\ IF res[1]
             THEN /\ pxpc' = [pxpc EXCEPT ![r] = "send"]
                  /\ UNCHANGED <<rtVars, pxLog, pxSelected>>
             ELSE /\ FnReturned(r, ErrCircuitOpen)
                  /\ pxLog' = [pxLog EXCEPT ![r] =
                          Append(@, Attempted(u, FALSE, FALSE, "none", ErrCircuitOpen))]
                  /\ pxSelected' = [pxSelected EXCEPT ![r] = ""]
                  /\ pxpc' = [pxpc EXCEPT ![r] = "select"]
    /\ UNCHANGED <<pxSnapshot, pxWrapped, pxGone, pxWrites, pxUpstreams, mxEnabled,
                   pxMetrics>>
    /\ UNCHANGED <<cbEnabled, cbpc, cbArg, cbEvent, cbStreak, cbHistory>>
    /\ UNCHANGED <<now, rlVars, balVars, hcVars>>

\* the closure: IncrementConnections under least-connections, a fresh wrappedWriter
\* latched at 200, and proxy.ServeHTTP sends the request to the backend
ClosureSend(r) ==
    /\ dopc[r] = "fn"
    /\ pxpc[r] = "send"
    /\ lcConnections' = IF algorithm = "least_connections"
                        THEN Incremented(lcConnections, pxSelected[r])
                        ELSE lcConnections
    /\ pxWrapped' = [pxWrapped EXCEPT ![r] = 200]
    /\ pxpc' = [pxpc EXCEPT ![r] = "inflight"]
    /\ UNCHANGED <<pxSnapshot, pxSelected, pxGone, pxWrites, pxLog,
                   pxUpstreams, mxEnabled, pxMetrics>>
    /\ UNCHANGED <<lcHistory, wrrRun, backends, algorithm, health, rrCounter, wrrWeights, balpc, balLocal,
                   balCalls, balEvent, selCount, selDone>>
    /\ UNCHANGED <<now, rlVars, cbVars, hcVars, rtVars>>

\* the client goes away while the backend is being waited for: r.Context() is cancelled
ClientDisconnects(r) ==
    /\ pxpc[r] = "inflight"
    /\ ~pxGone[r]
    /\ pxGone' = [pxGone EXCEPT ![r] = TRUE]
    /\ UNCHANGED <<pxpc, pxSnapshot, pxSelected, pxWrapped, pxWrites, pxLog,
                   pxUpstreams, mxEnabled, pxMetrics>>
    /\ UNCHANGED <<now, rlVars, cbVars, balVars, hcVars, rtVars>>

\* the closure: proxy.ServeHTTP returns (with a cancelled context the transport fails);
\* a response's headers have gone to the client through wrappedWriter.WriteHeader, a
\* transport error wrote nothing. Then the outcome is classified and recorded with the
\* breaker, the deferred DecrementConnections runs and the closure returns.
ClosureForwarded(r, outcome) ==
    /\ dopc[r] = "fn"
    /\ pxpc[r] = "inflight"
    /\ pxGone[r] => outcome = TransportError
    /\ LET u == pxSelected[r]
           s == cbBackends[u]
           proxyErr == outcome = TransportError
           statusCode == IF proxyErr THEN pxWrapped[r] ELSE outcome
           failed == IsFailure(proxyErr, statusCode)
           err == IF failed THEN ErrBackend ELSE "nil"
       IN /\ pxWrapped' = [pxWrapped EXCEPT ![r] = statusCode]
          /\ pxWrites' = [pxWrites EXCEPT ![r] =
                             IF proxyErr THEN @ ELSE Append(@, <<doAttempt[r], outcome>>)]
          /\ cbBackends' = Stored(cbBackends, u,
                               IF BreakerOff(cbEnabled) THEN s
                               ELSE IF failed THEN FailureState(s, now)
                               ELSE IF s.tracked THEN SuccessState(s) ELSE s)
          /\ pxLog' = [pxLog EXCEPT ![r] =
                          Append(@, Attempted(u, TRUE, ~proxyErr,
                                              IF failed THEN "failure" ELSE "success", err))]
          /\ FnReturned(r, err)
    /\ lcConnections' = IF algorithm = "least_connections"
                        THEN Decremented(lcConnections, pxSelected[r])
                        ELSE lcConnections
    /\ pxSelected' = [pxSelected EXCEPT ![r] = ""]
    /\ pxpc' = [pxpc EXCEPT ![r] = "select"]
    /\ UNCHANGED <<pxSnapshot, pxGone, pxUpstreams, mxEnabled, pxMetrics>>
    /\ UNCHANGED <<cbEnabled, cbpc, cbArg, cbEvent, cbStreak, cbHistory>>
    /\ UNCHANGED <<lcHistory, wrrRun, backends, algorithm, health, rrCounter, wrrWeights, balpc, balLocal,
                   balCalls, balEvent, selCount, selDone>>
    /\ UNCHANGED <<now, rlVars, hcVars>>

\* ServeHTTP after h.retrier.Do returned: on an error, 503 through writeError unless the
\* latest wrappedWriter shows a status other than 200, and nothing more; without an
\* error the request is counted with lastBackendURL and the status of wrappedWriter
ServeHTTPReturn(r) ==
    /\ dopc[r] = "returned"
    /\ pxpc[r] = "select"
    /\ pxWrites' = [pxWrites EXCEPT ![r] =
                       IF doRet[r] # "nil" /\ NothingWritten(pxWrapped[r])
                       THEN Append(@, <<0, 503>>) ELSE @]
    /\ pxMetrics' = [pxMetrics EXCEPT ![r] =
                        IF doRet[r] # "nil"
                        THEN IF NothingWritten(pxWrapped[r])
                             THEN WriteErrorMetrics(@, 503) ELSE @
                        ELSE IF pxWrapped[r] # 0
                             THEN RecordRequest(@, mxEnabled, pxLog[r][Len(pxLog[r])].url,
                                                pxWrapped[r])
                             ELSE @]
    /\ pxpc' = [pxpc EXCEPT ![r] = "done"]
    /\ UNCHANGED <<pxSnapshot, pxSelected, pxWrapped, pxGone, pxLog, pxUpstreams,
                   mxEnabled>>
    /\ UNCHANGED <<now, rlVars, cbVars, balVars, hcVars, rtVars>>

-----------------------------------------------------------------------------
(* Specifications.                                                         *)

vars == <<now, rlVars, cbVars, balVars, hcVars, rtVars, pxVars>>

Algorithms == {"round_robin", "weighted_round_robin", "least_connections"}

\* the components a specification does not exercise stay in their initial state
RLQuiet == RLInitWith({TRUE})
CBQuiet == CBInitWith({TRUE})
BalQuiet == BalInitWith({<<>>}, {"round_robin"}, FALSE)
HCQuiet == HCInitWith({FALSE})
RTQuiet == RTInitWith({FALSE}, {1}, {<<100, 200>>})

InitAllow ==
    /\ now = 0
    /\ RLInitWith(BOOLEAN)
    /\ CBQuiet
    /\ BalQuiet
    /\ HCQuiet
    /\ RTQuiet
    /\ PXInit

\* the rate limiter: concurrent Allow calls, no Cleanup
NextAllow ==
    \/ \E t \in RLThreads, c \in Clients : AllowDisabled(t, c, MaxAllowCalls)
    \/ \E t \in RLThreads, c \in Clients : AllowLookup(t, c, MaxAllowCalls)
    \/ \E t \in RLThreads : AllowDecide(t)
    \/ Tick

SpecAllow == InitAllow /\ [][NextAllow]_vars

\* the rate limiter: concurrent Allow calls and the sweep
NextSweep ==
    \/ \E t \in RLThreads, c \in Clients : AllowLookup(t, c, MaxSweepCalls)
    \/ \E t \in RLThreads : AllowDecide(t)
    \/ CleanupBegin
    \/ \E c \in Clients : CleanupCheck(c)
    \/ CleanupDelete
    \/ CleanupEnd
    \/ Tick

InitSweep ==
    /\ now = 0
    /\ RLInitWith({TRUE})
    /\ CBQuiet
    /\ BalQuiet
    /\ HCQuiet
    /\ RTQuiet
    /\ PXInit

SpecSweep == InitSweep /\ [][NextSweep]_vars

\* the circuit breaker under concurrent callers
NextBreaker ==
    \/ \E t \in CBThreads, u \in BreakerURLs : CanAttemptDisabled(t, u)
    \/ \E t \in CBThreads, u \in BreakerURLs : CanAttemptLookup(t, u)
    \/ \E t \in CBThreads : CanAttemptDecide(t)
    \/ \E u \in BreakerURLs : RecordSuccess(u)
    \/ \E u \in BreakerURLs : RecordFailure(u)
    \/ \E u \in BreakerURLs : Reset(u)
    \/ Tick

InitBreaker ==
    /\ now = 0
    /\ RLQuiet
    /\ CBInitWith(BOOLEAN)
    /\ BalQuiet
    /\ HCQuiet
    /\ RTQuiet
    /\ PXInit

SpecBreaker == InitBreaker /\ [][NextBreaker]_vars

\* the policies, every call with a health snapshot of its own
NextSelect ==
    \/ \E t \in BalThreads, h \in Snapshots(backends) : RRFilter(t, h, MaxSelects)
    \/ \E t \in BalThreads : RRAdd(t)
    \/ \E h \in Snapshots(backends) : WRRSelect(h, MaxSelects)
    \/ \E h \in Snapshots(backends) : LCSelect(h, MaxSelects)
    \/ \E u \in URLsOf(backends) : IncrementConnections(u)
    \/ \E u \in URLsOf(backends) : DecrementConnections(u)

InitSelect ==
    /\ now = 0
    /\ RLQuiet
    /\ CBQuiet
    /\ BalInitWith(Upstreams, Algorithms, FALSE)
    /\ HCQuiet
    /\ RTQuiet
    /\ PXInit

SpecSelect == InitSelect /\ [][NextSelect]_vars

\* fresh round-robin and weighted policies, every call with the same health snapshot
InitFixed ==
    /\ now = 0
    /\ RLQuiet
    /\ CBQuiet
    /\ BalInitWith(Upstreams \cup MoreUpstreams,
                   {"round_robin", "weighted_round_robin"}, TRUE)
    /\ HCQuiet
    /\ RTQuiet
    /\ PXInit

NextFixed ==
    \/ \E t \in BalThreads : RRFilter(t, health, MaxSelectsFixed)
    \/ \E t \in BalThreads : RRAdd(t)
    \/ WRRSelect(health, MaxSelectsFixed)

SpecFixed == InitFixed /\ [][NextFixed]_vars

\* the health checker: Start, then the probe goroutines
InitHealth ==
    /\ now = 0
    /\ RLQuiet
    /\ CBQuiet
    /\ BalInitWith(Upstreams, {"round_robin"}, FALSE)
    /\ HCInitWith(BOOLEAN)
    /\ RTQuiet
    /\ PXInit

NextHealth ==
    \/ Start
    \/ \E u \in URLs, healthy \in BOOLEAN : PerformHealthCheck(u, healthy)
    \/ Tick

SpecHealth == InitHealth /\ [][NextHealth]_vars

\* the connection counts of a least-connections policy under direct calls
ConnectionUpstreams == {<<Backend("A", 1), Backend("B", 1)>>}

InitConnections ==
    /\ now = 0
    /\ RLQuiet
    /\ CBQuiet
    /\ BalInitWith(ConnectionUpstreams, {"least_connections"}, FALSE)
    /\ HCQuiet
    /\ RTQuiet
    /\ PXInit

NextConnections ==
    \/ \E u \in URLsOf(backends) : CountedIncrement(u)
    \/ \E u \in URLsOf(backends) : CountedDecrement(u)

SpecConnections == InitConnections /\ [][NextConnections]_vars

\* the server's use of the health checker: Start, the probe goroutines, /status requests
\* and Stop at shutdown
ServerUpstreams == {<<Backend("A", 1), Backend("B", 1)>>}

InitServer ==
    /\ now = 0
    /\ RLQuiet
    /\ CBQuiet
    /\ BalInitWith(ServerUpstreams, {"round_robin"}, FALSE)
    /\ HCInitWith(BOOLEAN)
    /\ RTQuiet
    /\ PXInit

NextServer ==
    \/ Start
    \/ \E u \in URLs, healthy \in BOOLEAN : PerformHealthCheck(u, healthy)
    \/ \E u \in URLs : ProberExit(u)
    \/ Stop
    \/ StopReturn
    \/ StatusHandler

SpecServer == InitServer /\ [][NextServer]_vars

\* a goroutine that can run does run, and a select whose hc.ctx.Done() case is ready
\* again and again takes it in the end (the runtime chooses among the ready cases at
\* random)
SpecServerFair ==
    /\ SpecServer
    /\ WF_vars(StopReturn)
    /\ \A u \in URLs : SF_vars(ProberExit(u))

\* the retrier: concurrent Do calls, each with a closure that fails or succeeds
InitRetry ==
    /\ now = 0
    /\ RLQuiet
    /\ CBQuiet
    /\ BalQuiet
    /\ HCQuiet
    /\ RTInitWith(BOOLEAN, 1..MaxAttempts, BackoffConfigs)
    /\ PXInit

NextRetry ==
    \/ \E r \in Requests : Do(r)
    \/ \E r \in Requests, err \in FnErrors \cup {"nil"} : FnReturns(r, err)
    \/ \E r \in Requests, jitter \in Jitters : Sleep(r, jitter)

SpecRetry == InitRetry /\ [][NextRetry]_vars

\* the dispatcher: requests served concurrently over one upstream, with the limiter,
\* the policy, the breaker and the retrier, all within one tick of the clock; the
\* histories of those components are kept by their own specifications only
DispatchUpstreams == {<<Backend("A", 1), Backend("B", 2)>>}

InitDispatch ==
    /\ now = 0
    /\ RLInitWith({TRUE})
    /\ CBInitWith({TRUE})
    /\ BalInitWith(DispatchUpstreams, Algorithms, FALSE)
    /\ HCInitServing
    /\ RTInitWith({TRUE}, {2}, {<<100, 200>>})
    /\ PXInit

NextDispatch ==
    \/ \E r \in Requests : ServeHTTP(r, "c1", MaxRequests)
    \/ \E r \in Requests : ReadHealth(r)
    \/ \E r \in Requests : ClosureSelect(r)
    \/ \E r \in Requests : ClosureCanAttempt(r)
    \/ \E r \in Requests : ClosureSend(r)
    \/ \E r \in Requests : ClientDisconnects(r)
    \/ \E r \in Requests, outcome \in Outcomes : ClosureForwarded(r, outcome)
    \/ \E r \in Requests : Sleep(r, 100)
    \/ \E r \in Requests : ServeHTTPReturn(r)

SpecDispatch == InitDispatch /\ [][NextDispatch]_vars

\* goroutines making calls on the four components at once
InitLocks ==
    /\ now = 0
    /\ RLQuiet
    /\ CBQuiet
    /\ BalQuiet
    /\ HCQuiet
    /\ RTQuiet
    /\ PXInit

NextLocks ==
    \/ \E t \in LKThreads, script \in Calls : Call(t, script)
    \/ \E t \in LKThreads : LockEnter(t)
    \/ \E t \in LKThreads : LockReturn(t)
    \/ \E t \in LKThreads : RLockReturn(t)
    \/ \E t \in LKThreads : Release(t)

SpecLocks == InitLocks /\ [][NextLocks]_vars

\* one request goroutine serving requests while the probe goroutines of the health
\* checker update the statuses
InitStale ==
    /\ now = 0
    /\ RLInitWith({TRUE})
    /\ CBInitWith({TRUE})
    /\ BalInitWith(DispatchUpstreams, Algorithms, FALSE)
    /\ HCInitServing
    /\ hcEnabled
    /\ RTInitWith({TRUE}, {2}, {<<100, 200>>})
    /\ PXInit

NextStale ==
    \/ ServeHTTP(1, "c1", MaxStaleRequests)
    \/ ReadHealth(1)
    \/ ClosureSelect(1)
    \/ ClosureCanAttempt(1)
    \/ ClosureSend(1)
    \/ ClientDisconnects(1)
    \/ \E outcome \in Outcomes : ClosureForwarded(1, outcome)
    \/ Sleep(1, 100)
    \/ ServeHTTPReturn(1)
    \/ \E u \in URLs, healthy \in BOOLEAN : PerformHealthCheck(u, healthy)

SpecStale == InitStale /\ [][NextStale]_vars

\* the dispatcher with or without an upstream and with the metrics collector enabled or
\* disabled
InitMetrics ==
    /\ now = 0
    /\ RLInitWith({TRUE})
    /\ CBInitWith({TRUE})
    /\ BalInitWith(DispatchUpstreams, {"round_robin"}, FALSE)
    /\ HCInitServing
    /\ RTInitWith({TRUE}, {2}, {<<100, 200>>})
    /\ PXInitWith({0, 1}, BOOLEAN)

NextMetrics ==
    \/ \E r \in Requests : ServeHTTPNoUpstreams(r)
    \/ \E r \in Requests : ServeHTTP(r, "c1", MaxRequests)
    \/ \E r \in Requests : ReadHealth(r)
    \/ \E r \in Requests : ClosureSelect(r)
    \/ \E r \in Requests : ClosureCanAttempt(r)
    \/ \E r \in Requests : ClosureSend(r)
    \/ \E r \in Requests : ClientDisconnects(r)
    \/ \E r \in Requests, outcome \in Outcomes : ClosureForwarded(r, outcome)
    \/ \E r \in Requests : Sleep(r, 100)
    \/ \E r \in Requests : ServeHTTPReturn(r)

SpecMetrics == InitMetrics /\ [][NextMetrics]_vars

-----------------------------------------------------------------------------
(* Rate limiter properties.                                                *)

\* admissions of client c whose times lie in the window-sized interval [s, s + WindowSize)
AdmittedInWindow(c, s) ==
    Cardinality({i \in DOMAIN rlAdmitted[c] :
                    s <= rlAdmitted[c][i] /\ rlAdmitted[c][i] < s + WindowSize})

\* C1: with the limiter enabled and no Cleanup running, whatever the interleaving
\* of the Allow calls, no client has more than RequestsPerIP admissions whose
\* times lie inside one interval [s, s + WindowSize).
C1_WindowLimit ==
    rlEnabled =>
        \A c \in Clients, s \in 0..now : AdmittedInWindow(c, s) <= RequestsPerIP

\* a client was admitted up to the limit inside one window, a call of its was
\* rejected, and it was admitted again later
C1_Witness ==
    /\ rlEnabled
    /\ \E c \in Clients :
          /\ Len(rlAdmitted[c]) > RequestsPerIP
          /\ \E s \in 0..now : AdmittedInWindow(c, s) = RequestsPerIP
          /\ \E t \in RLThreads : rlpc[t] = "idle" /\ rlArg[t] = c /\ ~rlRet[t]

\* C2: Cleanup is correctness-neutral: every completed Allow returned what it
\* returns in the run without Cleanup, and no client is admitted more than
\* RequestsPerIP times within one window.
C2_SweepNeutral ==
    /\ \A t \in RLThreads : rlpc[t] = "idle" => rlRet[t] = rlShadowRet[t]
    /\ \A c \in Clients, s \in 0..now : AdmittedInWindow(c, s) <= RequestsPerIP

\* the admissions of client c that count at time t: those made at a time ts with
\* t in [ts, ts + WindowSize)
CountedAt(c, t) ==
    Cardinality({i \in DOMAIN rlAdmitted[c] :
                    rlAdmitted[c][i] <= t /\ t < rlAdmitted[c][i] + WindowSize})

\* thread t completes an Allow call in this step
AllowCompletes(t) == rlEnabled /\ rlpc[t] = "client" /\ rlpc'[t] = "idle"

\* C22: an admission made at time ts counts against its client in every Allow call made
\* at a time in [ts, ts + WindowSize) and in none made at ts + WindowSize or later: the
\* list a call compares with the limit holds exactly those admissions; hence a client
\* is admitted by the first call made once fewer than RequestsPerIP of them remain.
C22_CountsWithinWindow ==
    [][\A t \in RLThreads :
          AllowCompletes(t) =>
              LET c == rlArg[t]
                  kept == Len(rlHeap'[rlRef[t]]) - (IF rlRet'[t] THEN 1 ELSE 0)
              IN /\ kept = CountedAt(c, now)
                 /\ CountedAt(c, now) < RequestsPerIP => rlRet'[t]]_vars

\* a client reached the limit at one time and was admitted again exactly one window
\* after its first admission
C22_Witness ==
    /\ rlEnabled
    /\ \E c \in Clients :
          /\ Len(rlAdmitted[c]) = RequestsPerIP + 1
          /\ rlAdmitted[c][RequestsPerIP] = rlAdmitted[c][1]
          /\ rlAdmitted[c][RequestsPerIP + 1] = rlAdmitted[c][1] + WindowSize

\* C23: Allow(client) returns true exactly when fewer than RequestsPerIP earlier
\* admissions of the client lie inside the current window; a rejected call records
\* no timestamp: the client's list gains nothing by it.
C23_AdmitIffBelowLimit ==
    [][\A t \in RLThreads :
          AllowCompletes(t) =>
              LET c == rlArg[t]
                  id == rlRef[t]
              IN /\ rlRet'[t] <=> CountedAt(c, now) < RequestsPerIP
                 /\ ~rlRet'[t] =>
                        /\ Len(rlHeap'[id]) <= Len(rlHeap[id])
                        /\ Len(rlHeap'[id]) = RequestsPerIP
                        /\ \A i \in DOMAIN rlHeap'[id] :
                               \E j \in DOMAIN rlHeap[id] : rlHeap'[id][i] = rlHeap[id][j]]_vars

\* a client at the limit was rejected twice in a row and the second rejection left its
\* list as the first had
C23_Witness ==
    /\ rlEnabled
    /\ \A t \in RLThreads : rlpc[t] = "idle" /\ ~rlRet[t] /\ rlArg[t] = "c1"
    /\ Len(rlAdmitted["c1"]) = RequestsPerIP
    /\ Len(rlHeap[rlClients["c1"]]) = RequestsPerIP

\* C28: with the limiter disabled (or without a configuration) every Allow call of every
\* client returns true and no per-client state is created or grows.
C28_DisabledAdmitsAll ==
    ~rlEnabled =>
        /\ \A t \in RLThreads : rlRet[t] /\ rlRef[t] = 0
        /\ \A c \in Clients : rlClients[c] = 0
        /\ \A id \in LimiterIds : rlHeap[id] = <<>>

\* the disabled limiter has admitted one client more than RequestsPerIP times at one time
C28_Witness ==
    /\ ~rlEnabled
    /\ \E c \in Clients :
          /\ Len(rlAdmitted[c]) > RequestsPerIP + 1
          /\ \A i \in DOMAIN rlAdmitted[c] : rlAdmitted[c][i] = now

\* the answer an Allow call for client d made now would get, from the stored lists
WouldAdmit(d) ==
    \/ rlClients[d] = 0
    \/ ~AtLimit(Len(ValidRequests(rlHeap[rlClients[d]], now - WindowSize)))

\* C30: the windows are per client: no step of an Allow call for one client changes the
\* list of another client or the answer an Allow call for another client gets, so each
\* client is admitted up to RequestsPerIP times per window whatever the others do.
C30_ClientsIndependent ==
    [][\A t \in RLThreads :
          (rlEnabled /\ rlpc'[t] # rlpc[t]) =>
              \A d \in Clients \ {rlArg'[t]} :
                  /\ WouldAdmit(d)' = WouldAdmit(d)
                  /\ rlAdmitted'[d] = rlAdmitted[d]
                  /\ rlClients[d] # 0 =>
                         /\ rlClients'[d] = rlClients[d]
                         /\ rlHeap'[rlClients[d]] = rlHeap[rlClients[d]]]_vars

\* both clients have been admitted RequestsPerIP times at one time, and one of them has
\* been rejected since
C30_Witness ==
    /\ rlEnabled
    /\ \A c \in Clients :
          /\ Len(rlAdmitted[c]) = RequestsPerIP
          /\ \A i \in DOMAIN rlAdmitted[c] : rlAdmitted[c][i] = now
    /\ \E t \in RLThreads : rlpc[t] = "idle" /\ ~rlRet[t]

-----------------------------------------------------------------------------
(* Circuit breaker properties.                                             *)

\* C3: with the breaker enabled, a CanAttempt(url) returns true while fewer
\* than FailureThreshold consecutive failures have been recorded for the url, and
\* false once FailureThreshold have been, as long as less than the timeout has
\* elapsed since the last of them.
C3_OpensAtThreshold ==
    (cbEnabled /\ cbEvent.op = "CanAttempt") =>
        /\ cbEvent.streak < FailureThreshold => cbEvent.ret
        /\ (/\ cbEvent.streak >= FailureThreshold
            /\ cbEvent.at - cbEvent.before.lastFailureTime < BreakerTimeout)
               => ~cbEvent.ret

\* a CanAttempt was refused after FailureThreshold consecutive failures
C3_Witness ==
    /\ cbEnabled
    /\ cbEvent.op = "CanAttempt"
    /\ cbEvent.streak >= FailureThreshold
    /\ cbEvent.at - cbEvent.before.lastFailureTime < BreakerTimeout
    /\ ~cbEvent.ret

\* C4: a CanAttempt(url) that finds the url Open returns true and leaves it
\* Closed with counter 0 when at least the timeout has elapsed since the last
\* recorded failure; earlier than that it returns false and changes nothing.
C4_RecoversAfterTimeout ==
    (/\ cbEnabled
     /\ cbEvent.op = "CanAttempt"
     /\ cbEvent.before.tracked
     /\ cbEvent.before.state = "open") =>
        IF cbEvent.at - cbEvent.before.lastFailureTime >= BreakerTimeout
        THEN /\ cbEvent.ret
             /\ cbBackends[cbEvent.url].state = "closed"
             /\ cbBackends[cbEvent.url].consecutiveFailures = 0
        ELSE /\ ~cbEvent.ret
             /\ cbBackends[cbEvent.url] = cbEvent.before

\* an Open url recovered through a CanAttempt made once the timeout had elapsed
C4_Witness ==
    /\ cbEnabled
    /\ cbEvent.op = "CanAttempt"
    /\ cbEvent.before.state = "open"
    /\ cbEvent.at - cbEvent.before.lastFailureTime >= BreakerTimeout
    /\ cbEvent.ret
    /\ cbBackends[cbEvent.url].state = "closed"

\* C5: RecordSuccess(url) on a tracked url leaves it Closed with counter 0
\* whatever the state before, and a url is Open only when FailureThreshold
\* failures have been recorded for it with no success among them.
C5_SuccessResets ==
    cbEnabled =>
        /\ (cbEvent.op = "RecordSuccess" /\ cbEvent.before.tracked) =>
              /\ cbBackends[cbEvent.url].state = "closed"
              /\ cbBackends[cbEvent.url].consecutiveFailures = 0
        /\ \A u \in BreakerURLs :
              cbBackends[u].state = "open" => cbStreak[u] >= FailureThreshold

\* a success was recorded for an Open url before its timeout had elapsed
C5_Witness ==
    /\ cbEnabled
    /\ cbEvent.op = "RecordSuccess"
    /\ cbEvent.before.state = "open"
    /\ cbEvent.at - cbEvent.before.lastFailureTime < BreakerTimeout
    /\ cbBackends[cbEvent.url].state = "closed"

\* GetState: the state of the url's entry, Closed when it has none
GetState(u) == IF cbBackends[u].tracked THEN cbBackends[u].state ELSE "closed"

\* C27: with the breaker disabled, CanAttempt returns true for every url after any
\* sequence of RecordFailure / RecordSuccess calls, and those calls create no entry and
\* leave GetState at Closed.
C27_DisabledBreakerInert ==
    ~cbEnabled =>
        /\ \A u \in BreakerURLs : cbBackends[u] = Untracked /\ GetState(u) = "closed"
        /\ cbEvent.op = "CanAttempt" => cbEvent.ret

\* more failures than the threshold were recorded for a url of the disabled breaker and
\* CanAttempt for it has just returned true
C27_Witness ==
    /\ ~cbEnabled
    /\ cbEvent.op = "CanAttempt"
    /\ cbEvent.ret
    /\ cbStreak[cbEvent.url] > FailureThreshold

\* the answer a CanAttempt call for url v made now would get
CanAttemptAnswer(v) ==
    \/ BreakerOff(cbEnabled)
    \/ ~cbBackends[v].tracked
    \/ AttemptState(cbBackends[v], now)[1]

\* C29: breaker state is per url: an operation on one url changes neither the entry
\* nor the CanAttempt answer of another url, and a url with no failure recorded (no
\* entry) answers CanAttempt with true and is Closed.
C29_BreakerPerUrl ==
    /\ [](\A u \in BreakerURLs :
             (cbEvent.op = "CanAttempt" /\ cbEvent.url = u /\ ~cbEvent.before.tracked) =>
                 cbEvent.ret /\ GetState(u) = "closed")
    /\ [][cbBackends' # cbBackends =>
             \A v \in BreakerURLs \ {cbEvent'.url} :
                 /\ cbBackends'[v] = cbBackends[v]
                 /\ CanAttemptAnswer(v)' = CanAttemptAnswer(v)]_vars

\* the circuit of one url is Open and CanAttempt for the other url, which has no entry,
\* has just returned true
C29_Witness ==
    /\ cbEnabled
    /\ \E u \in BreakerURLs :
          /\ cbBackends[u].state = "open"
          /\ ~CanAttemptAnswer(u)
          /\ cbEvent.op = "CanAttempt" /\ cbEvent.url # u /\ cbEvent.ret
          /\ ~cbBackends[cbEvent.url].tracked

\* C33: with the breaker enabled, under every interleaving of CanAttempt,
\* RecordSuccess, RecordFailure and Reset, a backend whose state is Open has
\* consecutive_failures >= failure_threshold: every RecordFailure adds exactly one to
\* the counter, and the counter goes down only in a step that leaves the state Closed
\* with counter 0.
C33_OpenMeansThreshold ==
    /\ [](cbEnabled =>
            \A u \in BreakerURLs :
                cbBackends[u].state = "open" =>
                    cbBackends[u].consecutiveFailures >= FailureThreshold)
    /\ [][cbEnabled =>
            \A u \in BreakerURLs :
                /\ cbStreak'[u] = cbStreak[u] + 1 =>
                       cbBackends'[u].consecutiveFailures =
                           cbBackends[u].consecutiveFailures + 1
                /\ cbBackends'[u].consecutiveFailures <
                       cbBackends[u].consecutiveFailures =>
                       /\ cbBackends'[u].state = "closed"
                       /\ cbBackends'[u].consecutiveFailures = 0]_vars

\* a failure was recorded on an Open backend, past the threshold, while another
\* caller's CanAttempt on the same backend sits between its two locked sections
C33_Witness ==
    /\ cbEnabled
    /\ cbEvent.op = "RecordFailure"
    /\ cbEvent.before.state = "open"
    /\ cbBackends[cbEvent.url].state = "open"
    /\ cbBackends[cbEvent.url].consecutiveFailures = FailureThreshold + 1
    /\ \E t \in CBThreads : cbpc[t] = "found" /\ cbArg[t] = cbEvent.url

\* C37: a backend that recovered through CanAttempt (Open to Closed after the
\* timeout, counter 0) goes back to Open only in a RecordFailure that completes
\* failure_threshold consecutive RecordFailure calls recorded since the recovery; the
\* first failure after the recovery re-opens it only if failure_threshold is 1.
C37_ReopensAfterThreshold ==
    /\ [](cbEnabled =>
            \A u \in BreakerURLs :
                cbRecovered[u] =>
                    /\ cbBackends[u].state = "closed"
                    /\ cbBackends[u].consecutiveFailures = cbStreak[u]
                    /\ cbStreak[u] < FailureThreshold)
    /\ [][cbEnabled =>
            \A u \in BreakerURLs :
                (cbRecovered[u] /\ cbBackends'[u].state = "open") =>
                    /\ cbEvent'.op = "RecordFailure" /\ cbEvent'.url = u
                    /\ cbStreak'[u] >= FailureThreshold
                    /\ cbStreak'[u] = 1 => FailureThreshold = 1]_vars

\* the first failure after a recovery was recorded and the backend is still Closed,
\* with counter 1 below the threshold
C37_Witness ==
    /\ cbEnabled
    /\ cbEvent.op = "RecordFailure"
    /\ cbRecovered[cbEvent.url]
    /\ cbEvent.streak = 0
    /\ cbBackends[cbEvent.url].state = "closed"
    /\ cbBackends[cbEvent.url].consecutiveFailures = 1
    /\ FailureThreshold > 1

\* C40: while a backend is Open every further RecordFailure moves last_failure_time to
\* the time of that call, so a CanAttempt that finds it Open returns true only when a
\* full timeout has elapsed since the most recent recorded failure.
C40_TimeoutFromLatestFailure ==
    cbEnabled =>
        /\ \A u \in BreakerURLs :
              cbBackends[u].tracked => cbBackends[u].lastFailureTime = cbFailedAt[u]
        /\ (cbEvent.op = "RecordFailure" /\ cbEvent.before.state = "open") =>
              cbBackends[cbEvent.url].lastFailureTime = cbEvent.at
        /\ (cbEvent.op = "CanAttempt" /\ cbEvent.before.state = "open" /\ cbEvent.ret) =>
              cbEvent.at - cbFailedAt[cbEvent.url] >= BreakerTimeout

\* a CanAttempt was refused on a backend whose latest failure was recorded while it
\* was already Open, at a later time than the stamp that failure found
C40_Witness ==
    /\ cbEnabled
    /\ cbEvent.op = "CanAttempt"
    /\ cbEvent.before.state = "open"
    /\ ~cbEvent.ret
    /\ cbEvent.before.consecutiveFailures > FailureThreshold
    /\ cbEvent.before.lastFailureTime > 0
    /\ cbEvent.at >= BreakerTimeout
    /\ cbEvent.at - cbFailedAt[cbEvent.url] < BreakerTimeout

-----------------------------------------------------------------------------
(* Balancing policy properties.                                            *)

\* positions of the slice whose url the snapshot h maps to true or not at all
HealthyPositions(h) ==
    {i \in DOMAIN backends : backends[i].URL \notin DOMAIN h \/ h[backends[i].URL] = TRUE}

\* C6: whatever the policy and the calls before, a backend SelectBackend returns
\* is an element of the slice it was given and is not mapped to false by the
\* health snapshot it was given.
C6_OnlyHealthyReturned ==
    (balEvent.op # "none" /\ ~balEvent.err) =>
        /\ \E i \in DOMAIN backends : backends[i] = balEvent.ret
        /\ ~(balEvent.ret.URL \in DOMAIN balEvent.health
                /\ balEvent.health[balEvent.ret.URL] = FALSE)

\* a call returned a backend although the snapshot marks another one unhealthy,
\* after earlier calls
C6_Witness ==
    /\ balEvent.op # "none"
    /\ ~balEvent.err
    /\ selDone >= 2
    /\ \E u \in DOMAIN balEvent.health : balEvent.health[u] = FALSE

\* C7: whatever the policy and the calls before, SelectBackend fails with
\* NoHealthyBackends if and only if no backend of the slice has snapshot value
\* true or absent.
C7_ErrorIffNoneHealthy ==
    balEvent.op # "none" => (balEvent.err <=> HealthyPositions(balEvent.health) = {})

\* C10: least-connections returns a healthy backend whose connection count is
\* the minimum over the healthy backends, the first such backend of the slice.
C10_LeastConnections ==
    (balEvent.op = "least_connections" /\ ~balEvent.err) =>
        \E i \in HealthyPositions(balEvent.health) :
            /\ backends[i] = balEvent.ret
            /\ \A j \in HealthyPositions(balEvent.health) :
                  /\ lcConnections[backends[i].URL] <= lcConnections[backends[j].URL]
                  /\ j < i => lcConnections[backends[j].URL] > lcConnections[backends[i].URL]

\* the backend returned has a busier healthy backend before it and a healthy
\* backend with the same count after it
C10_Witness ==
    /\ balEvent.op = "least_connections"
    /\ ~balEvent.err
    /\ \E i, j, k \in HealthyPositions(balEvent.health) :
          /\ j < i /\ i < k
          /\ backends[i] = balEvent.ret
          /\ lcConnections[backends[j].URL] > lcConnections[backends[i].URL]
          /\ lcConnections[backends[k].URL] = lcConnections[backends[i].URL]

-----------------------------------------------------------------------------
(* Distribution properties, health snapshot fixed.                         *)

HealthyWeight == SumWeights(SelectSeq(backends, LAMBDA b :
                     b.URL \notin DOMAIN health \/ health[b.URL] = TRUE))

\* C8: a fresh round-robin policy under a fixed snapshot with k healthy backends
\* has returned each of them exactly m times once k*m calls have returned,
\* however the concurrent calls interleave.
C8_RoundRobinEven ==
    algorithm = "round_robin" =>
        LET k == Cardinality(HealthyPositions(health))
        IN (k > 0 /\ selDone % k = 0) =>
              \A i \in HealthyPositions(health) : selCount[backends[i].URL] = selDone \div k

\* two rounds over at least two healthy backends are complete, one backend is
\* unhealthy, and a further call is in flight
C8_Witness ==
    /\ algorithm = "round_robin"
    /\ Cardinality(HealthyPositions(health)) >= 2
    /\ Cardinality(HealthyPositions(health)) < Len(backends)
    /\ selDone = 2 * Cardinality(HealthyPositions(health))
    /\ \E t \in BalThreads : balpc[t] = "filtered"

\* C9, as claimed: after every prefix of N selections of a fresh weighted
\* policy under a fixed snapshot, each healthy backend b has been selected
\* floor(N*weight_b/W) or ceil(N*weight_b/W) times.
C9_FloorOrCeil ==
    algorithm = "weighted_round_robin" =>
        \A i \in HealthyPositions(health) :
            /\ (selDone * backends[i].Weight) \div HealthyWeight
                  <= selCount[backends[i].URL]
            /\ selCount[backends[i].URL]
                  <= (selDone * backends[i].Weight + HealthyWeight - 1) \div HealthyWeight

\* C9, amended: after every prefix of N selections each healthy backend b has
\* been selected at most ceil(N*weight_b/W) times, and exactly N*weight_b/W
\* times when N is a multiple of W.
C9_CeilAndExact ==
    algorithm = "weighted_round_robin" =>
        \A i \in HealthyPositions(health) :
            /\ selCount[backends[i].URL]
                  <= (selDone * backends[i].Weight + HealthyWeight - 1) \div HealthyWeight
            /\ selDone % HealthyWeight = 0 =>
                  selCount[backends[i].URL] * HealthyWeight = selDone * backends[i].Weight

\* a full cycle of W selections over at least three healthy backends of
\* different weights is complete, one backend being unhealthy
C9_Witness ==
    /\ algorithm = "weighted_round_robin"
    /\ Cardinality(HealthyPositions(health)) >= 3
    /\ Cardinality(HealthyPositions(health)) < Len(backends)
    /\ \E i, j \in HealthyPositions(health) : backends[i].Weight # backends[j].Weight
    /\ selDone = HealthyWeight

\* the upstreams of the smooth distribution test and of the weighted selection test
SmoothUpstreams ==
    { <<Backend("A", 3), Backend("B", 2), Backend("C", 1)>>,
      <<Backend("A", 5), Backend("B", 1), Backend("C", 1)>> }

\* C32: a fresh weighted policy with all backends healthy never returns the heaviest
\* backend more than 2 times in a row within its first 7 selections, for the weights
\* (A:3, B:2, C:1) and (A:5, B:1, C:1).
C32_MaxRunOfHeaviest ==
    (/\ algorithm = "weighted_round_robin"
     /\ backends \in SmoothUpstreams
     /\ HealthyPositions(health) = DOMAIN backends
     /\ selDone <= 7) =>
        ~(wrrRun.url = "A" /\ wrrRun.len > 2)

\* the seventh selection over the weights (5, 1, 1) has returned A for the second time
\* in a row
C32_Witness ==
    /\ algorithm = "weighted_round_robin"
    /\ backends = <<Backend("A", 5), Backend("B", 1), Backend("C", 1)>>
    /\ HealthyPositions(health) = DOMAIN backends
    /\ selDone = 7
    /\ wrrRun = [url |-> "A", len |-> 2]

-----------------------------------------------------------------------------
(* Health checker claims, checked under SpecHealth.                        *)

\* C11: a backend's Healthy flag changes only in a step that is a probe update of that
\* backend; the update turns a healthy backend unhealthy exactly when the probe was bad
\* and brought ConsecutiveFailures to at least UnhealthyThreshold, and an unhealthy one
\* healthy exactly when the probe was good and brought ConsecutiveSuccesses to at least
\* HealthyThreshold; every other probe leaves the flag as it was.
C11_FlagChangesOnThreshold ==
    [][\A u \in DOMAIN hcStatuses :
          LET before == hcStatuses[u]
              after == hcStatuses'[u]
              probed == hcProbes' = hcProbes + 1 /\ hcEvent'.url = u
              good == hcEvent'.healthy
          IN /\ after.Healthy # before.Healthy => probed
             /\ probed =>
                   /\ (before.Healthy /\ ~after.Healthy) <=>
                         /\ before.Healthy
                         /\ ~good
                         /\ before.ConsecutiveFailures + 1 >= UnhealthyThreshold
                   /\ (~before.Healthy /\ after.Healthy) <=>
                         /\ ~before.Healthy
                         /\ good
                         /\ before.ConsecutiveSuccesses + 1 >= HealthyThreshold
                   /\ good => after.ConsecutiveSuccesses = before.ConsecutiveSuccesses + 1
                   /\ ~good => after.ConsecutiveFailures = before.ConsecutiveFailures + 1
      ]_vars

\* a backend went unhealthy and a good probe has just turned it healthy again
C11_Witness ==
    /\ hcEvent.url \in DOMAIN hcStatuses
    /\ hcEvent.healthy
    /\ ~hcEvent.before.Healthy
    /\ hcEvent.before.ConsecutiveSuccesses + 1 = HealthyThreshold
    /\ hcStatuses[hcEvent.url].Healthy

\* C12: in every reachable state, every url of the status map has ConsecutiveSuccesses = 0
\* or ConsecutiveFailures = 0.
C12_OneStreak ==
    \A u \in DOMAIN hcStatuses :
        hcStatuses[u].ConsecutiveSuccesses = 0 \/ hcStatuses[u].ConsecutiveFailures = 0

\* a bad probe has just ended a streak of successes
C12_Witness ==
    /\ hcEvent.url \in DOMAIN hcStatuses
    /\ ~hcEvent.healthy
    /\ hcEvent.before.ConsecutiveSuccesses > 0
    /\ hcStatuses[hcEvent.url].ConsecutiveFailures = 1

\* C38: with both thresholds >= 1, a backend marked healthy has ConsecutiveFailures <
\* UnhealthyThreshold and a backend marked unhealthy has ConsecutiveSuccesses <
\* HealthyThreshold.
C38_StreakBelowThreshold ==
    (UnhealthyThreshold >= 1 /\ HealthyThreshold >= 1) =>
        \A u \in DOMAIN hcStatuses :
            IF hcStatuses[u].Healthy
            THEN hcStatuses[u].ConsecutiveFailures < UnhealthyThreshold
            ELSE hcStatuses[u].ConsecutiveSuccesses < HealthyThreshold

\* a good probe of an unhealthy backend left it one success short of the threshold, and
\* the other backend is healthy one failure short of its threshold
C38_Witness ==
    /\ hcEvent.url \in DOMAIN hcStatuses
    /\ hcEvent.healthy
    /\ ~hcStatuses[hcEvent.url].Healthy
    /\ hcStatuses[hcEvent.url].ConsecutiveSuccesses = HealthyThreshold - 1
    /\ \E u \in DOMAIN hcStatuses :
          /\ hcStatuses[u].Healthy
          /\ hcStatuses[u].ConsecutiveFailures = UnhealthyThreshold - 1

-----------------------------------------------------------------------------
(* Retrier claims, checked under SpecRetry.                                *)

\* C13: with MaxAttempts >= 1, Do never invokes the closure more than MaxAttempts times
\* (more than once when disabled), makes no invocation after one that returned nil, and
\* when it has returned it has invoked the closure at least once (exactly once when
\* disabled or MaxAttempts = 1) and returns what the last invocation returned: nil if
\* and only if that invocation succeeded, its error otherwise.
C13_DoContract ==
    \A r \in Requests :
        LET limit == IF rtEnabled THEN rtMaxAttempts ELSE 1
        IN /\ doInvocations[r] <= limit
           /\ doLastFn[r] = "nil" => dopc[r] = "returned"
           /\ dopc[r] = "returned" =>
                 /\ doInvocations[r] >= 1
                 /\ (~rtEnabled \/ rtMaxAttempts = 1) => doInvocations[r] = 1
                 /\ doRet[r] = "nil" <=> doLastFn[r] = "nil"
                 /\ doRet[r] = doLastFn[r]

\* a Do call that used all of three attempts and returned the last error, after an
\* earlier attempt had failed with another error
C13_Witness ==
    \E r \in Requests :
        /\ dopc[r] = "returned"
        /\ rtEnabled
        /\ doInvocations[r] = 3
        /\ doRet[r] = ErrBackend

\* C14: the duration slept between two attempts never exceeds MaxBackoff, whatever the
\* attempt, the configured InitialBackoff <= MaxBackoff and the jitter.
C14_SleepWithinMaxBackoff ==
    \A r \in Requests : doSlept[r] <= rtMaxBackoff

-----------------------------------------------------------------------------
(* Dispatcher claims, checked under SpecDispatch.                          *)

\* the WriteHeader calls on w that came from an attempt (not from writeError)
AttemptWrites(writes) == {i \in 1..Len(writes) : writes[i][1] # 0}

\* every backend of the upstream is present and false in the snapshot h
AllUnhealthy(h) ==
    /\ backends # <<>>
    /\ \A u \in URLsOf(backends) : u \in DOMAIN h /\ ~h[u]

\* C15: when a forwarding attempt ends, a transport error or a status >= 500 makes the
\* breaker count one more failure for the selected backend and the attempt return an
\* error to the retrier; any other status (4xx included) makes the breaker reset the
\* backend's failure count, the attempt return nil, and Do return nil at once, so that
\* no further attempt is made.
C15_OutcomeClassified ==
    [][\A r \in Requests :
          /\ (pxpc[r] = "inflight" /\ pxpc'[r] = "select") =>
                LET u == pxSelected[r]
                    last == pxLog'[r][Len(pxLog'[r])]
                    failed == ~last.wrote \/ pxWrapped'[r] >= 500
                IN /\ last.contacted /\ last.url = u
                   /\ failed =>
                         /\ last.recorded = "failure"
                         /\ cbBackends'[u].tracked
                         /\ cbBackends'[u].consecutiveFailures =
                                cbBackends[u].consecutiveFailures + 1
                         /\ doLastFn'[r] = ErrBackend
                         /\ doRet'[r] # "nil" \/ dopc'[r] # "returned"
                   /\ ~failed =>
                         /\ last.recorded = "success"
                         /\ cbBackends'[u].consecutiveFailures = 0
                         /\ cbBackends'[u].state = "closed"
                         /\ doLastFn'[r] = "nil"
                         /\ dopc'[r] = "returned" /\ doRet'[r] = "nil"
          /\ (doLastFn[r] = "nil" /\ pxpc[r] \notin {"idle", "health"}) =>
                doInvocations'[r] = doInvocations[r] \/ pxpc'[r] = "health"
      ]_vars

\* a request whose first attempt failed at the backend and whose second attempt was
\* answered 404: recorded as a success, and Do returned nil
C15_Witness ==
    \E r \in Requests :
        /\ Len(pxLog[r]) = 2
        /\ pxLog[r][1].recorded = "failure"
        /\ pxLog[r][2].recorded = "success"
        /\ pxWrapped[r] = 404
        /\ dopc[r] = "returned"
        /\ doRet[r] = "nil"

\* C16: once an attempt of a request has written response headers to the client, the
\* retrier starts no further attempt for that request, so that headers reach the client
\* from at most one attempt.
C16_HeadersCommit ==
    [][\A r \in Requests :
          /\ AttemptWrites(pxWrites[r]) # {} => doInvocations'[r] = doInvocations[r]
          /\ Cardinality(AttemptWrites(pxWrites'[r])) <= 1
      ]_vars

\* C17: when the retrier is exhausted, the 503 error response is written if and only if
\* no attempt of the request has written headers to the client.
C17_ErrorOnlyIfUnwritten ==
    \A r \in Requests :
        (pxpc[r] = "done" /\ rlRet[r] /\ doRet[r] # "nil") =>
            ((\E i \in 1..Len(pxWrites[r]) : pxWrites[r][i] = <<0, 503>>)
                <=> AttemptWrites(pxWrites[r]) = {})

\* C18: the step in which the rate limiter rejects a request writes 429 and ends the
\* request without invoking the closure and without touching the policy state, the
\* breaker state or the connection counts; the request never selects or contacts a
\* backend.
C18_RejectedStops ==
    [][\A r \in Requests :
          /\ (rlCalls' = rlCalls + 1 /\ ~rlRet'[r] /\ pxpc[r] \in {"idle", "done"}) =>
                /\ UNCHANGED <<rrCounter, wrrWeights, lcConnections, cbBackends>>
                /\ UNCHANGED <<dopc, doInvocations>>
          /\ (pxpc'[r] # "idle" /\ ~rlRet'[r]) =>
                /\ pxpc'[r] = "done"
                /\ pxWrites'[r] = <<<<0, 429>>>>
                /\ pxLog'[r] = <<>>
                /\ pxSelected'[r] = ""
                /\ pxWrapped'[r] = 0
      ]_vars

\* a request was rejected with 429 while another one is waiting for its backend
C18_Witness ==
    \E r, q \in Requests :
        /\ pxpc[r] = "done"
        /\ ~rlRet[r]
        /\ pxWrites[r] = <<<<0, 429>>>>
        /\ pxpc[q] = "inflight"

\* C19: a request whose snapshot has every backend false fails every attempt with
\* NoHealthyBackends, contacts no backend, changes no breaker state and no connection
\* count, and once the retrier is exhausted (after all of its attempts) is answered 503.
C19_AllUnhealthy ==
    [][\A r \in Requests :
          (rlRet'[r] /\ AllUnhealthy(pxSnapshot'[r])) =>
              /\ \A i \in 1..Len(pxLog'[r]) :
                    pxLog'[r][i] =
                        Attempted("", FALSE, FALSE, "none", ErrNoHealthyBackends)
              /\ pxpc'[r] \in {"select", "done"}
              /\ pxWrapped'[r] = 0
              /\ (pxLog'[r] # pxLog[r] \/ pxpc'[r] # pxpc[r]) =>
                    UNCHANGED <<cbBackends, lcConnections>>
              /\ pxpc'[r] = "done" =>
                    /\ pxWrites'[r] = <<<<0, 503>>>>
                    /\ Len(pxLog'[r]) = DoMaxAttempts(rtEnabled, rtMaxAttempts)
      ]_vars

\* a request with an all-false snapshot has been answered 503 after two attempts
C19_Witness ==
    \E r \in Requests :
        /\ pxpc[r] = "done"
        /\ rlRet[r]
        /\ AllUnhealthy(pxSnapshot[r])
        /\ Len(pxLog[r]) = 2
        /\ pxWrites[r] = <<<<0, 503>>>>

\* C20: once the client of a request has disconnected during an attempt, that attempt
\* ends as a transport error and the retrier starts no further attempt for the request.
C20_NoAttemptAfterDisconnect ==
    [][\A r \in Requests :
          pxGone[r] =>
              /\ doInvocations'[r] = doInvocations[r]
              /\ pxLog'[r] # pxLog[r] => ~pxLog'[r][Len(pxLog'[r])].wrote
      ]_vars

\* the requests whose current attempt is being forwarded to u
Forwarding(u) == {r \in Requests : pxpc[r] = "inflight" /\ pxSelected[r] = u}

\* C21: under least-connections and any interleaving of requests, a backend's active
\* count equals the number of attempts being forwarded to it (so every count is 0 when
\* no request is in flight), and an attempt the circuit breaker rejects changes no count
C21_ActiveCountsMatch ==
    /\ [](algorithm = "least_connections" =>
             \A u \in URLs : lcConnections[u] = Cardinality(Forwarding(u)))
    /\ [][\A r \in Requests :
             (pxpc[r] = "breaker" /\ pxpc'[r] = "select") =>
                 lcConnections' = lcConnections]_vars

\* two attempts are being forwarded to one backend at once
TwoForwarded == algorithm = "least_connections" /\ \E u \in URLs : lcConnections[u] = 2

\* the breaker has rejected an attempt of one request while an attempt of the other
\* request is being forwarded
C21_Witness ==
    /\ algorithm = "least_connections"
    /\ \E u \in URLs : lcConnections[u] = 1
    /\ \E r \in Requests : \E i \in 1..Len(pxLog[r]) : pxLog[r][i].err = ErrCircuitOpen

-----------------------------------------------------------------------------
(* Health checker lifecycle and /status properties.                        *)

\* C24: Stop always terminates: a Stop call waiting in hc.wg.Wait() returns; it returns
\* only after the context was cancelled and every checkBackend goroutine Start had
\* started has exited; and once it has returned no Status (flag or counters) changes.
C24_StopTerminates ==
    /\ (hcStop = "waiting") ~> (hcStop = "returned")
    /\ [](hcStop = "returned" =>
             hcCancelled /\ \A u \in URLs : hcProber[u] # "running")
    /\ [][hcStop = "returned" =>
             hcStatuses' = hcStatuses /\ hcStop' = "returned"]_vars

\* Stop has returned after the goroutines of both backends ran probes and exited
C24_Witness ==
    /\ hcEnabled
    /\ hcStop = "returned"
    /\ hcProbes > 1
    /\ \A u \in URLsOf(backends) : hcProber[u] = "exited"

\* the configured backends for which IsHealthy answered true when /status was served
HealthyByIsHealthy ==
    Cardinality({i \in DOMAIN backends : stReport.isHealthy[backends[i].URL]})

\* the configured backends whose url had a Status with the flag set in the snapshot
\* /status was served from
HealthyInSnapshot ==
    Cardinality({i \in DOMAIN backends :
                    /\ backends[i].URL \in DOMAIN stReport.statuses
                    /\ stReport.statuses[backends[i].URL]})

\* C25: /status counts a configured backend as healthy exactly when IsHealthy(url) is
\* true for it (so a backend without a Status counts as healthy), and healthy +
\* unhealthy is the number of configured backends.
C25_StatusAgreesWithIsHealthy ==
    stReport.served =>
        /\ stReport.healthy = HealthyByIsHealthy
        /\ stReport.healthy + stReport.unhealthy = Len(backends)

\* C25, amended: /status counts a configured backend as healthy exactly when the
\* GetAllStatuses snapshot has an entry for its url and the entry's flag is true (a
\* backend without a Status counts as unhealthy although IsHealthy is true for it), and
\* healthy + unhealthy is the number of configured backends.
C25_StatusCountsKnownHealthy ==
    stReport.served =>
        /\ stReport.healthy = HealthyInSnapshot
        /\ stReport.total = Len(backends)
        /\ stReport.healthy + stReport.unhealthy = stReport.total

\* /status was served with health checking disabled: no backend has a Status, IsHealthy
\* is true for both and both are reported unhealthy
C25_Witness ==
    /\ ~hcEnabled
    /\ hcStarted
    /\ stReport.served
    /\ stReport.total = 2
    /\ stReport.healthy = 0
    /\ stReport.unhealthy = 2
    /\ \A u \in URLsOf(backends) : stReport.isHealthy[u]

-----------------------------------------------------------------------------
(* Metrics properties.                                                     *)

\* request r was answered 429 by the rate-limit check
RateLimitedRequest(r) == pxUpstreams > 0 /\ pxWrites[r] = <<<<0, 429>>>>

\* request r was answered 503 because no upstream is configured
NoUpstreamRequest(r) == pxUpstreams = 0 /\ pxWrites[r] = <<<<0, 503>>>>

\* request r was answered 503 after every attempt found no healthy backend
NoHealthyRequest(r) ==
    /\ pxUpstreams > 0
    /\ pxWrites[r] = <<<<0, 503>>>>
    /\ pxLog[r] # <<>>
    /\ \A i \in DOMAIN pxLog[r] : pxLog[r][i].err = ErrNoHealthyBackends

\* request r has ended in a pre-dispatch error
PreDispatchError(r) ==
    /\ pxpc[r] = "done"
    /\ RateLimitedRequest(r) \/ NoUpstreamRequest(r) \/ NoHealthyRequest(r)

\* the one event of a request answered with an error status by writeError
ErrorEvent(r) == <<[backend |-> "error", status |-> pxWrites[r][1][2]]>>

\* C26: with metrics enabled, every request that ended in a pre-dispatch error
\* (rate-limited, no upstream configured, no healthy backend) has recorded exactly one
\* metrics event, with backend label "error" and the status returned to the client.
C26_ErrorsCounted ==
    mxEnabled => \A r \in Requests : PreDispatchError(r) => pxMetrics[r] = ErrorEvent(r)

\* C26, amended: with metrics enabled, a request that ended rate-limited or without a
\* healthy backend has recorded exactly one metrics event, with backend label "error"
\* and the status returned to the client; a request answered 503 because no upstream
\* is configured has recorded no metrics event.
C26_ErrorsCountedWithUpstream ==
    mxEnabled =>
        \A r \in Requests :
            PreDispatchError(r) =>
                pxMetrics[r] = IF NoUpstreamRequest(r) THEN <<>> ELSE ErrorEvent(r)

\* one request ended rate-limited and another without a healthy backend, each with its
\* one "error" event
C26_Witness ==
    /\ mxEnabled
    /\ \E r1, r2 \in Requests :
          /\ pxpc[r1] = "done" /\ RateLimitedRequest(r1)
          /\ pxMetrics[r1] = <<[backend |-> "error", status |-> 429]>>
          /\ pxpc[r2] = "done" /\ NoHealthyRequest(r2)
          /\ pxMetrics[r2] = <<[backend |-> "error", status |-> 503]>>

\* a request was answered 503 "No upstreams configured" with metrics enabled and was
\* not counted
NoUpstreamUncounted ==
    mxEnabled /\ \E r \in Requests : PreDispatchError(r) /\ NoUpstreamRequest(r)

-----------------------------------------------------------------------------
(* Connection count properties.                                            *)

\* C31: after any sequence of IncrementConnections and DecrementConnections calls every
\* least-connections count is >= 0 and is the number of increments minus the number
\* of decrements that found a positive count; a decrement that found 0 left 0.
C31_CountsNonNegative ==
    /\ \A u \in URLs :
          /\ lcConnections[u] >= 0
          /\ lcConnections[u] = lcIncrements[u] - lcDecrements[u]
    /\ (lcEvent.op = "decrement" /\ lcEvent.before = 0) => lcConnections[lcEvent.url] = 0

\* a backend was incremented twice and decremented back to 0, and a further decrement
\* has just found 0
C31_Witness ==
    /\ lcEvent.op = "decrement"
    /\ lcEvent.before = 0
    /\ lcIncrements[lcEvent.url] = 2
    /\ lcDecrements[lcEvent.url] = 2
    /\ lcConnections[lcEvent.url] = 0

\* C34: within one request's retry loop, after an attempt ended with the breaker-open
\* error for a backend, no later attempt of that request selects the same backend while
\* its breaker still refuses it: a later attempt on that backend is let through by
\* CanAttempt. Stated for every policy.
C34_NoReselectWhileOpen ==
    \A r \in Requests :
        \A i, j \in 1..Len(pxLog[r]) :
            (i < j /\ pxLog[r][i].err = ErrCircuitOpen /\ pxLog[r][j].url = pxLog[r][i].url)
                => pxLog[r][j].err # ErrCircuitOpen

\* the steps of one request inside ServeHTTP, as <<position before, position after>>:
\* admitted, snapshot read, backend selected, CanAttempt true, CanAttempt false,
\* forwarded, outcome recorded, Do returned
PipelineOrder ==
    { <<"idle", "health">>, <<"done", "health">>, <<"health", "select">>,
      <<"select", "breaker">>, <<"breaker", "send">>, <<"breaker", "select">>,
      <<"send", "inflight">>, <<"inflight", "select">>, <<"select", "done">> }

\* what request r has done and holds: a step of r changes it
RequestState(r) ==
    <<pxpc[r], pxSelected[r], pxWrapped[r], pxLog[r], pxWrites[r], dopc[r], doAttempt[r]>>

\* C35: within one request the rate limiter is consulted exactly once, in the step that
\* starts the request and before any selection, and never in a later step of the
\* request; every attempt goes selection, CanAttempt, forwarding, recording with the
\* breaker, in that order; and no attempt forwards to a backend that its CanAttempt
\* refused.
C35_PipelineOrder ==
    /\ [][\A r \in Requests :
            \* the limiter: once, at the start, and the pipeline is entered only if
            \* it admitted the request
            /\ (pxpc[r] \in {"idle", "done"} /\ RequestState(r)' # RequestState(r)) =>
                   /\ rlCalls' = rlCalls + 1
                   /\ pxLog'[r] = <<>> /\ pxSelected'[r] = ""
                   /\ pxpc'[r] = (IF rlRet'[r] THEN "health" ELSE "done")
            /\ (pxpc[r] \notin {"idle", "done"} /\ RequestState(r)' # RequestState(r)) =>
                   /\ rlCalls' = rlCalls
                   /\ rlHeap' = rlHeap
            \* the order of the steps
            /\ pxpc'[r] # pxpc[r] =>
                   (<<pxpc[r], pxpc'[r]>> \in PipelineOrder \/ pxpc'[r] = "done")
            /\ (pxpc[r] = "select" /\ pxpc'[r] = "breaker") =>
                   /\ pxSelected'[r] \in URLsOf(backends)
                   /\ UNCHANGED <<cbBackends, lcConnections, pxWrapped, pxLog>>
            \* forwarding only after CanAttempt returned true for the selected backend
            /\ (pxpc[r] = "breaker" /\ pxpc'[r] = "send") =>
                   /\ cbBackends'[pxSelected[r]].state = "closed"
                   /\ pxSelected'[r] = pxSelected[r]
            /\ (pxpc[r] = "breaker" /\ pxpc'[r] = "select") =>
                   LET last == pxLog'[r][Len(pxLog'[r])]
                   IN /\ Len(pxLog'[r]) = Len(pxLog[r]) + 1
                      /\ last.url = pxSelected[r]
                      /\ last.err = ErrCircuitOpen
                      /\ ~last.contacted /\ last.recorded = "none"
                      /\ UNCHANGED <<cbBackends, lcConnections, pxWrapped, pxWrites>>
            \* the outcome is recorded with the breaker after the forwarding
            /\ (pxpc[r] = "inflight" /\ pxpc'[r] = "select") =>
                   LET last == pxLog'[r][Len(pxLog'[r])]
                   IN /\ Len(pxLog'[r]) = Len(pxLog[r]) + 1
                      /\ last.url = pxSelected[r]
                      /\ last.contacted /\ last.recorded \in {"failure", "success"}
         ]_vars
    /\ [](\A r \in Requests : \A i \in 1..Len(pxLog[r]) :
              /\ pxLog[r][i].contacted => pxLog[r][i].err # ErrCircuitOpen
              /\ pxLog[r][i].err = ErrCircuitOpen => ~pxLog[r][i].contacted
              /\ rlRet[r])

\* the limiter was consulted twice for two requests: one made two forwarded attempts,
\* the other was refused by the breaker in both of its attempts and contacted no backend
C35_Witness ==
    \E r, q \in Requests :
        /\ rlCalls = 2
        /\ pxpc[r] = "done" /\ pxpc[q] = "done"
        /\ Len(pxLog[r]) = 2 /\ pxLog[r][1].contacted /\ pxLog[r][2].contacted
        /\ Len(pxLog[q]) = 2
        /\ pxLog[q][1].err = ErrCircuitOpen /\ ~pxLog[q][1].contacted
        /\ pxLog[q][2].err = ErrCircuitOpen /\ ~pxLog[q][2].contacted

-----------------------------------------------------------------------------
(* The health snapshot of a request, checked under SpecStale.              *)

\* the backends a request holding the snapshot h may select
Selectable(h) == {u \in URLsOf(backends) : u \notin DOMAIN h \/ h[u]}

\* C39: every attempt of a request selects from the health snapshot read before the
\* retry loop: the snapshot does not change while the request is being served, whatever
\* the probers write, each attempt selects a backend healthy in that snapshot (also one
\* that has turned unhealthy since) and none that is unhealthy in it (also one that has
\* recovered since), and it fails with no healthy backends exactly when the snapshot has
\* none.
C39_OneSnapshot ==
    [][\A r \in Requests :
          /\ pxpc[r] \in {"select", "breaker", "send", "inflight"} =>
                pxSnapshot'[r] = pxSnapshot[r]
          /\ (pxpc[r] = "select" /\ pxpc'[r] = "breaker") =>
                pxSelected'[r] \in Selectable(pxSnapshot[r])
          /\ (pxpc[r] = "select" /\ Len(pxLog'[r]) = Len(pxLog[r]) + 1) =>
                /\ pxLog'[r][Len(pxLog'[r])].err = ErrNoHealthyBackends
                /\ Selectable(pxSnapshot[r]) = {}
          /\ (pxpc[r] = "select" /\ dopc[r] = "fn" /\ Selectable(pxSnapshot[r]) = {}) =>
                pxpc'[r] # "breaker"
      ]_vars

\* the second attempt of a request has selected a backend that the probers turned
\* unhealthy after the request read its snapshot
C39_Witness ==
    \E r \in Requests :
        /\ pxpc[r] = "breaker"
        /\ Len(pxLog[r]) = 1
        /\ pxSnapshot[r][pxSelected[r]]
        /\ ~hcStatuses[pxSelected[r]].Healthy

\* an attempt found no healthy backend in the snapshot although the probers have
\* marked a backend healthy again since the snapshot was read
C39_RecoveredNotSelected ==
    \E r \in Requests :
        /\ Len(pxLog[r]) >= 1
        /\ pxLog[r][Len(pxLog[r])].err = ErrNoHealthyBackends
        /\ pxpc[r] = "select"
        /\ \E u \in URLsOf(backends) : hcStatuses[u].Healthy /\ ~pxSnapshot[r][u]

-----------------------------------------------------------------------------
(* Lock order, checked under SpecLocks.                                    *)

\* the place of a lock in the order rate limiter < health checker < circuit breaker <
\* policy, the map-level lock of a component before its per-entry locks
LockOrder(l) ==
    CASE l[1] = "rl.mu" -> 1
      [] l[1] = "client.mu" -> 2
      [] l[1] = "hc.statusMutex" -> 3
      [] l[1] = "status.mu" -> 4
      [] l[1] = "cb.mu" -> 5
      [] l[1] \in {"wrr.mu", "lc.mu"} -> 6

\* C36: no interleaving of the rate limiter's, the health checker's, the circuit
\* breaker's and the policies' operations deadlocks: as long as some goroutine is
\* inside a call, some goroutine can make its next lock operation; and a goroutine that
\* holds a lock and takes another takes them in the order map-level lock before
\* per-entry lock, rate limiter < health checker < circuit breaker < policy.
C36_NoDeadlock ==
    /\ (\E t \in LKThreads : lkScript[t] # <<>>) => \E t \in LKThreads : Runnable(t)
    /\ \A t \in LKThreads :
          /\ \A i, j \in 1..Len(lkHeld[t]) :
                i < j => LockOrder(lkHeld[t][i][1]) < LockOrder(lkHeld[t][j][1])
          /\ lkScript[t] = <<>> => lkHeld[t] = <<>>

\* Cleanup holds rl.mu and a client's lock inside it, GetAllStatuses holds
\* hc.statusMutex and a status lock inside it, and a third goroutine waits in Lock()
\* for a lock one of them holds
C36_Witness ==
    \E t, o, w \in LKThreads :
        /\ lkHeld[t] = <<<<RlMu, "W">>, <<ClientMu("c1"), "W">>>>
        /\ lkHeld[o] = <<<<StatusMutex, "R">>, <<StatusMu("B"), "R">>>>
        /\ lkPending[w]
        /\ ~Runnable(w)
        /\ Head(lkScript[w])[2] \in {RlMu, ClientMu("c1"), StatusMutex, StatusMu("B")}

====
